---- MODULE Spec2Model ----
(***************************************************************************)
(* znote: offline-first synchronisation of a per-user note log.            *)
(*                                                                         *)
(* The client side (the sync engine and its local storage) is translated   *)
(* from app/src/lib/sync/engine.ts and the storage module; the mobile      *)
(* engine and storage have the same logic.  The server's /sync/push and    *)
(* /sync/pull handlers are not among the sources: they are modelled from   *)
(* section 4.2 of the specification and the server README.                 *)
(***************************************************************************)
EXTENDS Integers, Sequences, FiniteSets, TLC

(* ------------------------------ bounds -------------------------------- *)

\* Every server request takes one tick of the server clock; the clock stops
\* at MaxTime when two installations take part,
MaxTime == 10
\* and at MaxSoloTime when one installation is alone.
MaxSoloTime == 6
\* Number of saveBlock and deleteBlock calls in one behaviour,
MaxEdits == 2
\* and in the behaviours that are followed further.
MaxDeepEdits == 3
\* The time at which the server stops when the installations take turns.
MaxTripTime == 8
\* The time at which the server stops when an installation signs in.
MaxSignInTime == 12
\* Number of local mutations of an installation that signs in.
MaxOfflineEdits == 2
\* The time at which the server stops for the installation that has blocks,
\* tasks and settings.
MaxDeviceTime == 6
\* Number of rows of a server table the read requests are tried on.
MaxRows == 3
\* Number of failed requests in one behaviour.
MaxFailures == 1
\* dayCutHour of saveSettings when the store has no settings.
DayCutHourDefault == 4
\* Number of sync() calls of one engine that may be in flight together.
MaxRuns == 2
\* Length of the lists the pure merge function is tried on.
MaxLen == 2
MaxPushed == 2
MaxSaves == 1
\* Delay of the debounce timeout, in milliseconds.
DebounceDelay == 1000
\* Milliseconds that pass in one step of the timed installation.
Quantum == 500
MaxDebounceTime == 4
\* Server time up to which the installation with fair triggers is followed.
MaxLiveTime == 15

Clients == {"A", "B"}
BlockIds == {<<"b1">>}
\* What the user of installation c types: texts are opaque to the code, so
\* one text per installation tells the writers apart.
Texts(c) == {<<c>>}

\* Every client of the model is an installation of the same user.
UserOf(c) == "u1"

\* new Date() on installation c.  The code compares none of the times an
\* installation stamps (updatedAt, deletedAt, lastSyncedAt of a local
\* record: it only tests deletedAt for null), so its clock stands still.
ClientNow(c) == 0

(* ------------------------------ values -------------------------------- *)

\* null, and a non-null value v, of a nullable field.
Null == <<>>
Some(v) == <<v>>

\* `x || 0` on a nullable number.
OrZero(x) == IF x = Null THEN 0 ELSE x[1]

Range(s) == {s[i] : i \in 1..Len(s)}

\* Array.findIndex by id, 0 when absent.
FindIndex(list, id) ==
  IF \E i \in 1..Len(list) : list[i].id = id
  THEN CHOOSE i \in 1..Len(list) :
         /\ list[i].id = id
         /\ \A j \in 1..(i - 1) : list[j].id # id
  ELSE 0

HasId(list, id) == FindIndex(list, id) > 0

(* ------------------------ client: local storage ----------------------- *)

\* A LocalBlock: the wire fields of a server block with the local metadata.
ToLocal(s, syncStatus, serverVersion, lastSyncedAt) ==
  [id |-> s.id, text |-> s.text, createdAt |-> s.createdAt,
   calendarEventId |-> s.calendarEventId,
   position |-> s.position, version |-> s.version, updatedAt |-> s.updatedAt,
   deletedAt |-> s.deletedAt, clientId |-> s.clientId,
   syncStatus |-> syncStatus, serverVersion |-> serverVersion,
   lastSyncedAt |-> lastSyncedAt]

updateLocalBlock(list, block) ==
  LET i == FindIndex(list, block.id)
  IN  IF i > 0 THEN [list EXCEPT ![i] = block] ELSE Append(list, block)

deleteLocalBlock(list, id, t) ==
  LET i == FindIndex(list, id)
  IN  IF i > 0
      THEN [list EXCEPT ![i].deletedAt = Some(t), ![i].syncStatus = "pending"]
      ELSE list

getPendingBlocks(list) == SelectSeq(list, LAMBDA b : b.syncStatus = "pending")

markBlocksSynced(list, ids, syncedAt) ==
  [i \in 1..Len(list) |->
     IF list[i].id \in Range(ids)
     THEN [list[i] EXCEPT !.syncStatus = "synced",
                          !.lastSyncedAt = Some(syncedAt),
                          !.serverVersion = Some(list[i].version)]
     ELSE list[i]]

getPendingTomorrowTasks(list) ==
  SelectSeq(list, LAMBDA b : b.syncStatus = "pending")

markTomorrowTasksSynced(list, ids, syncedAt) ==
  [i \in 1..Len(list) |->
     IF list[i].id \in Range(ids)
     THEN [list[i] EXCEPT !.syncStatus = "synced",
                          !.lastSyncedAt = Some(syncedAt),
                          !.serverVersion = Some(list[i].version)]
     ELSE list[i]]

\* A merge in which the server's copy wins over an unsynced local edit.
MergeOneServerWins(localList, s, t) ==
  ToLocal(s, "synced", Some(s.version), Some(t))

\* A merge that takes the server's copy but keeps the local version number.
MergeOneKeepsVersion(localList, s, t) ==
  LET i == FindIndex(localList, s.id)
      fromServer == ToLocal(s, "synced", Some(s.version), Some(t))
  IN  IF i = 0 THEN fromServer
      ELSE IF localList[i].syncStatus = "pending" THEN localList[i]
      ELSE [fromServer EXCEPT !.version = localList[i].version]

\* The record the merge keeps for one server record.
MergeOne(localList, s, t) ==
  LET i == FindIndex(localList, s.id)
  IN  IF i = 0
      THEN ToLocal(s, "synced", Some(s.version), Some(t))
      ELSE IF localList[i].syncStatus = "pending"
      THEN IF s.version > OrZero(localList[i].serverVersion)
           THEN [localList[i] EXCEPT !.syncStatus = "conflict",
                                     !.serverVersion = Some(s.version)]
           ELSE localList[i]
      ELSE ToLocal(s, "synced", Some(s.version), Some(t))

\* A merge that stores the batch and drops what the batch does not name.
mergeServerBlocksOnly(localList, serverList, t) ==
  [i \in 1..Len(serverList) |-> MergeOne(localList, serverList[i], t)]

mergeServerBlocks(localList, serverList, t) ==
  [i \in 1..Len(serverList) |-> MergeOne(localList, serverList[i], t)]
    \o SelectSeq(localList, LAMBDA l : ~HasId(serverList, l.id))

\* A LocalTomorrowTask, and the same merge over the list of tasks.
ToLocalTask(s, syncStatus, serverVersion, lastSyncedAt) ==
  [id |-> s.id, text |-> s.text, time |-> s.time, position |-> s.position,
   version |-> s.version, updatedAt |-> s.updatedAt,
   deletedAt |-> s.deletedAt, clientId |-> s.clientId,
   syncStatus |-> syncStatus, serverVersion |-> serverVersion,
   lastSyncedAt |-> lastSyncedAt]

MergeOneTask(localList, s, t) ==
  LET i == FindIndex(localList, s.id)
  IN  IF i = 0
      THEN ToLocalTask(s, "synced", Some(s.version), Some(t))
      ELSE IF localList[i].syncStatus = "pending"
      THEN IF s.version > OrZero(localList[i].serverVersion)
           THEN [localList[i] EXCEPT !.syncStatus = "conflict",
                                     !.serverVersion = Some(s.version)]
           ELSE localList[i]
      ELSE ToLocalTask(s, "synced", Some(s.version), Some(t))

mergeServerTomorrowTasks(localList, serverList, t) ==
  [i \in 1..Len(serverList) |-> MergeOneTask(localList, serverList[i], t)]
    \o SelectSeq(localList, LAMBDA l : ~HasId(serverList, l.id))

(* ----------------------- client: engine operations -------------------- *)

\* A saveBlock that takes the existing record's sync fields for never synced.
SavedBlockAsNew(list, p, clientId, t) ==
  LET i == FindIndex(list, p.id)
      existing == IF i > 0 THEN Some(list[i]) ELSE Null
  IN  [id |-> p.id,
       text |-> p.text,
       createdAt |-> IF p.createdAt # Null THEN p.createdAt[1]
                     ELSE IF existing # Null THEN existing[1].createdAt
                     ELSE t,
       calendarEventId |->
         IF p.calendarEventId # Null THEN p.calendarEventId
         ELSE IF existing # Null THEN existing[1].calendarEventId
         ELSE Null,
       position |-> IF p.position # Null THEN p.position[1]
                    ELSE IF existing # Null THEN existing[1].position
                    ELSE 0,
       version |-> (IF existing # Null THEN existing[1].version ELSE 0) + 1,
       updatedAt |-> t,
       deletedAt |-> Null,
       clientId |-> clientId,
       syncStatus |-> "pending",
       serverVersion |-> Null,
       lastSyncedAt |-> Null]

\* The LocalBlock that saveBlock(p) stores; p.createdAt, p.calendarEventId and
\* p.position are nullable (absent from the partial).
SavedBlock(list, p, clientId, t) ==
  LET i == FindIndex(list, p.id)
      existing == IF i > 0 THEN Some(list[i]) ELSE Null
  IN  [id |-> p.id,
       text |-> p.text,
       createdAt |-> IF p.createdAt # Null THEN p.createdAt[1]
                     ELSE IF existing # Null THEN existing[1].createdAt
                     ELSE t,
       calendarEventId |->
         IF p.calendarEventId # Null THEN p.calendarEventId
         ELSE IF existing # Null THEN existing[1].calendarEventId
         ELSE Null,
       position |-> IF p.position # Null THEN p.position[1]
                    ELSE IF existing # Null THEN existing[1].position
                    ELSE 0,
       version |-> (IF existing # Null THEN existing[1].version ELSE 0) + 1,
       updatedAt |-> t,
       deletedAt |-> Null,
       clientId |-> clientId,
       syncStatus |-> "pending",
       serverVersion |-> IF existing # Null THEN existing[1].serverVersion
                         ELSE Null,
       lastSyncedAt |-> IF existing # Null THEN existing[1].lastSyncedAt
                        ELSE Null]

\* Stable insertion of x into a list sorted by (createdAt, position).
Before(a, b) ==
  \/ a.createdAt < b.createdAt
  \/ a.createdAt = b.createdAt /\ a.position < b.position

RECURSIVE InsertSorted(_, _)
InsertSorted(sorted, x) ==
  IF sorted = <<>> THEN <<x>>
  ELSE IF Before(x, Head(sorted)) THEN <<x>> \o sorted
  ELSE <<Head(sorted)>> \o InsertSorted(Tail(sorted), x)

RECURSIVE SortBlocks(_)
SortBlocks(list) ==
  IF list = <<>> THEN <<>>
  ELSE InsertSorted(SortBlocks(SubSeq(list, 1, Len(list) - 1)), list[Len(list)])

\* getBlocks(): what the engine lists to the editor.
getBlocks(list) == SortBlocks(SelectSeq(list, LAMBDA b : b.deletedAt = Null))

(* ------------------------- server: /sync/push ------------------------- *)

ConflictPrefix == <<"[Conflict] ">>

\* "{id}-conflict-{epoch_ms}"
ConflictId(id, t) == id \o <<"-conflict-", t>>

IsConflictIdOf(cid, id) ==
  /\ Len(cid) = Len(id) + 2
  /\ SubSeq(cid, 1, Len(id)) = id
  /\ cid[Len(id) + 1] = "-conflict-"

\* A conflict rule that lets an equal version through.
IsConflictStrict(existing, incoming, clientId) ==
  /\ existing.version > incoming.version
  /\ existing.clientId # clientId

\* The conflict rule of the push handler.
IsConflict(existing, incoming, clientId) ==
  /\ existing.version >= incoming.version
  /\ existing.clientId # clientId

\* A duplicate that carries the incoming text and version as they came.
ConflictRowPlain(incoming, userId, clientId, t) ==
  [id |-> ConflictId(incoming.id, t), userId |-> userId,
   text |-> incoming.text,
   createdAt |-> incoming.createdAt,
   calendarEventId |-> incoming.calendarEventId,
   position |-> incoming.position + 1,
   version |-> incoming.version, updatedAt |-> t, deletedAt |-> Null,
   clientId |-> clientId]

ConflictRow(incoming, userId, clientId, t) ==
  [id |-> ConflictId(incoming.id, t), userId |-> userId,
   text |-> ConflictPrefix \o incoming.text,
   createdAt |-> incoming.createdAt,
   calendarEventId |-> incoming.calendarEventId,
   position |-> incoming.position + 1,
   version |-> 1, updatedAt |-> t, deletedAt |-> Null, clientId |-> clientId]

\* An update that stores the incoming version without the server's increment.
AcceptUpdateSameVersion(existing, incoming, clientId, t) ==
  [existing EXCEPT !.text = incoming.text,
                   !.calendarEventId = incoming.calendarEventId,
                   !.position = incoming.position,
                   !.version = incoming.version,
                   !.deletedAt = incoming.deletedAt,
                   !.clientId = clientId,
                   !.updatedAt = t]

AcceptUpdate(existing, incoming, clientId, t) ==
  [existing EXCEPT !.text = incoming.text,
                   !.calendarEventId = incoming.calendarEventId,
                   !.position = incoming.position,
                   !.version = incoming.version + 1,
                   !.deletedAt = incoming.deletedAt,
                   !.clientId = clientId,
                   !.updatedAt = t]

\* An insert that counts the server's acceptance on top of the incoming
\* version.
AcceptInsertIncremented(incoming, userId, clientId, t) ==
  [id |-> incoming.id, userId |-> userId, text |-> incoming.text,
   createdAt |-> incoming.createdAt,
   calendarEventId |-> incoming.calendarEventId,
   position |-> incoming.position,
   version |-> incoming.version + 1, updatedAt |-> t,
   deletedAt |-> incoming.deletedAt, clientId |-> clientId]

\* The insert of the push handler.
AcceptInsert(incoming, userId, clientId, t) ==
  [id |-> incoming.id, userId |-> userId, text |-> incoming.text,
   createdAt |-> incoming.createdAt,
   calendarEventId |-> incoming.calendarEventId,
   position |-> incoming.position,
   version |-> 1, updatedAt |-> t, deletedAt |-> incoming.deletedAt,
   clientId |-> clientId]

\* The same three writes for a tomorrow task, which has a time and no
\* createdAt.
TaskConflictRow(incoming, userId, clientId, t) ==
  [id |-> ConflictId(incoming.id, t), userId |-> userId,
   text |-> ConflictPrefix \o incoming.text, time |-> incoming.time,
   position |-> incoming.position + 1, version |-> 1, updatedAt |-> t,
   deletedAt |-> Null, clientId |-> clientId]

AcceptTaskUpdate(existing, incoming, clientId, t) ==
  [AcceptUpdate(existing, incoming, clientId, t) EXCEPT
     !.time = incoming.time]

AcceptTaskInsert(incoming, userId, clientId, t) ==
  [id |-> incoming.id, userId |-> userId, text |-> incoming.text,
   time |-> incoming.time, position |-> incoming.position, version |-> 1,
   updatedAt |-> t, deletedAt |-> incoming.deletedAt, clientId |-> clientId]

\* Settings in a push are upserted unconditionally; a push without settings
\* leaves the row alone.
PushSettings(row, incoming) == IF incoming = Null THEN row ELSE incoming

\* applied lists the blocks and appliedTasks the tomorrow tasks.
EmptyPushResponse ==
  [applied |-> <<>>, appliedTasks |-> <<>>, conflicts |-> <<>>]

\* One transaction over the batch: the table and the response after it.
RECURSIVE PushBlocksOfAnyOwner(_, _, _, _, _, _)
PushBlocksOfAnyOwner(table, resp, userId, clientId, incoming, t) ==
  IF incoming = <<>> THEN [table |-> table, resp |-> resp]
  ELSE
    LET b == Head(incoming)
        i == FindIndex(table, b.id)
    IN  IF i > 0 /\ IsConflict(table[i], b, clientId)
        THEN PushBlocksOfAnyOwner(
               Append(table, ConflictRow(b, userId, clientId, t)),
               [resp EXCEPT !.conflicts =
                  Append(@, [type |-> "block", id |-> b.id,
                             localVersion |-> b.version,
                             serverVersion |-> table[i].version])],
               userId, clientId, Tail(incoming), t)
        ELSE PushBlocksOfAnyOwner(
               IF i > 0
               THEN [table EXCEPT ![i] = AcceptUpdate(table[i], b, clientId, t)]
               ELSE Append(table, AcceptInsert(b, userId, clientId, t)),
               [resp EXCEPT !.applied = Append(@, b.id)],
               userId, clientId, Tail(incoming), t)

RECURSIVE PushBlocks(_, _, _, _, _, _)
PushBlocks(table, resp, userId, clientId, incoming, t) ==
  IF incoming = <<>> THEN [table |-> table, resp |-> resp]
  ELSE
    LET b == Head(incoming)
        i == FindIndex(table, b.id)
    IN  IF i > 0 /\ table[i].userId # userId
        THEN PushBlocks(table, resp, userId, clientId, Tail(incoming), t)
        ELSE IF i > 0 /\ IsConflict(table[i], b, clientId)
        THEN PushBlocks(
               Append(table, ConflictRow(b, userId, clientId, t)),
               [resp EXCEPT !.conflicts =
                  Append(@, [type |-> "block", id |-> b.id,
                             localVersion |-> b.version,
                             serverVersion |-> table[i].version])],
               userId, clientId, Tail(incoming), t)
        ELSE PushBlocks(
               IF i > 0
               THEN [table EXCEPT ![i] = AcceptUpdate(table[i], b, clientId, t)]
               ELSE Append(table, AcceptInsert(b, userId, clientId, t)),
               [resp EXCEPT !.applied = Append(@, b.id)],
               userId, clientId, Tail(incoming), t)

RECURSIVE PushTasks(_, _, _, _, _, _)
PushTasks(table, resp, userId, clientId, incoming, t) ==
  IF incoming = <<>> THEN [table |-> table, resp |-> resp]
  ELSE
    LET b == Head(incoming)
        i == FindIndex(table, b.id)
    IN  IF i > 0 /\ table[i].userId # userId
        THEN PushTasks(table, resp, userId, clientId, Tail(incoming), t)
        ELSE IF i > 0 /\ IsConflict(table[i], b, clientId)
        THEN PushTasks(
               Append(table, TaskConflictRow(b, userId, clientId, t)),
               [resp EXCEPT !.conflicts =
                  Append(@, [type |-> "tomorrowTask", id |-> b.id,
                             localVersion |-> b.version,
                             serverVersion |-> table[i].version])],
               userId, clientId, Tail(incoming), t)
        ELSE PushTasks(
               IF i > 0
               THEN [table EXCEPT
                       ![i] = AcceptTaskUpdate(table[i], b, clientId, t)]
               ELSE Append(table, AcceptTaskInsert(b, userId, clientId, t)),
               [resp EXCEPT !.appliedTasks = Append(@, b.id)],
               userId, clientId, Tail(incoming), t)

(* ------------------------- server: /sync/pull ------------------------- *)

Wire(row) ==
  [id |-> row.id, text |-> row.text, createdAt |-> row.createdAt,
   calendarEventId |-> row.calendarEventId,
   position |-> row.position, version |-> row.version,
   updatedAt |-> row.updatedAt, deletedAt |-> row.deletedAt,
   clientId |-> row.clientId]

\* A cursor test that also takes the rows written at the cursor's time.
ChangedSinceInclusive(row, since) == since = Null \/ row.updatedAt >= since[1]

\* updatedAt > since, everything when since is absent; tombstones included.
ChangedSince(row, since) == since = Null \/ row.updatedAt > since[1]

PullBlocks(table, userId, since) ==
  LET mine == SelectSeq(table,
                LAMBDA r : r.userId = userId /\ ChangedSince(r, since))
  IN  SortBlocks([i \in 1..Len(mine) |-> Wire(mine[i])])

WireTask(row) ==
  [id |-> row.id, text |-> row.text, time |-> row.time,
   position |-> row.position, version |-> row.version,
   updatedAt |-> row.updatedAt, deletedAt |-> row.deletedAt,
   clientId |-> row.clientId]

\* Stable sort of tasks by position.
RECURSIVE InsertByPosition(_, _)
InsertByPosition(sorted, x) ==
  IF sorted = <<>> THEN <<x>>
  ELSE IF x.position < Head(sorted).position THEN <<x>> \o sorted
  ELSE <<Head(sorted)>> \o InsertByPosition(Tail(sorted), x)

RECURSIVE SortTasks(_)
SortTasks(list) ==
  IF list = <<>> THEN <<>>
  ELSE InsertByPosition(SortTasks(SubSeq(list, 1, Len(list) - 1)),
                        list[Len(list)])

PullTasks(table, userId, since) ==
  LET mine == SelectSeq(table,
                LAMBDA r : r.userId = userId /\ ChangedSince(r, since))
  IN  SortTasks([i \in 1..Len(mine) |-> WireTask(mine[i])])

\* The user's settings row, when it has changed since the cursor.
PullSettings(row, since) ==
  IF row # Null /\ ChangedSince(row[1], since) THEN row ELSE Null

(* ------------------------- server: /sync/full ------------------------- *)

\* A full sync that leaves the tombstones in.
FullBlocksWithTombstones(table, userId) ==
  LET mine == SelectSeq(table, LAMBDA r : r.userId = userId)
  IN  SortBlocks([i \in 1..Len(mine) |-> Wire(mine[i])])

\* The user's records that are not tombstones.
FullBlocks(table, userId) ==
  LET mine == SelectSeq(table,
                LAMBDA r : r.userId = userId /\ r.deletedAt = Null)
  IN  SortBlocks([i \in 1..Len(mine) |-> Wire(mine[i])])

FullTasks(table, userId) ==
  LET mine == SelectSeq(table,
                LAMBDA r : r.userId = userId /\ r.deletedAt = Null)
  IN  SortTasks([i \in 1..Len(mine) |-> WireTask(mine[i])])

(* ------------------------------- state -------------------------------- *)

VARIABLES
  now,                \* the wall clock, advanced by every server request
  srvBlocks,          \* server: the blocks table, in insertion order
  srvTasks,           \* server: the tomorrow tasks table
  srvSettings,        \* server: the settings row of each user
  authToken,          \* client storage: the bearer token (the user it names)
  blocks,             \* client storage: the list of LocalBlocks
  tomorrowTasks,      \* client storage: the list of LocalTomorrowTasks
  settings,           \* client storage: the settings, null until saved
  syncState,          \* client storage: lastSyncedAt
  status,             \* engine: idle, syncing, error, offline
  isOnline,           \* engine: the platform's online flag
  syncInterval,       \* engine: the periodic ticker is running
  syncDebounceTimer,  \* engine: the debounce timeouts that are pending, each
                      \* the milliseconds left before it fires
  runs,               \* engine: the sync() calls in flight
  emitted,            \* the events the last step handed to the subscribers
  edits,              \* how many local mutations the users have made
  failures,           \* how many requests have failed
  tombstoned          \* history: the ids an installation has deleted, and
                      \* those of them whose tombstone it has pushed in a
                      \* sync() that ended without an error; an id leaves
                      \* both when anyone saves it again

server == <<now, srvBlocks, srvTasks, srvSettings>>
storage == <<authToken, blocks, tomorrowTasks, settings, syncState>>
timers == <<syncInterval, syncDebounceTimer>>
budget == <<edits, failures>>
vars == <<now, srvBlocks, srvTasks, srvSettings, authToken, blocks,
          tomorrowTasks, settings, syncState, status, isOnline, syncInterval,
          syncDebounceTimer, runs, emitted, edits, failures, tombstoned>>

Users == {"u1", "u2"}

Slots == 1..MaxRuns

\* A sync() call: where it stands, what it pushed and was answered, the
\* cursor of its pull and the pull's answer.  after and saved are history:
\* the ids whose tombstone the other installations had synced when the call
\* was made, and the settings the store held then.  begun is the server's
\* clock when the push transaction of the call began, until it commits;
\* read is the list a storage operation of the mobile engine has read and
\* not yet written back.
IdleRun ==
  [pc |-> "idle", via |-> "sync", pushed |-> <<>>, pushedTasks |-> <<>>,
   pushResp |-> Null, since |-> Null, pullResp |-> Null, after |-> {},
   saved |-> Null, begun |-> Null, read |-> Null]

NoTombstones == [deleted |-> {}, synced |-> {}]

Event(c, type, data) == [c |-> c, type |-> type, data |-> data]

\* An event whose data is a list of records.
ListEvent(c, type, list) ==
  [c |-> c, type |-> type, data |-> "", list |-> list]

\* getTomorrowTasks(): the live tasks, by position.
getTomorrowTasks(list) ==
  SortTasks(SelectSeq(list, LAMBDA t : t.deletedAt = Null))

\* setStatus: the events it emits.
StatusEvents(c, s) ==
  IF status[c] # s THEN <<Event(c, "status-change", s)>> ELSE <<>>

isLoggedIn(c) == authToken[c] # Null

InFlight(c) == {k \in Slots : runs[c][k].pc # "idle"}

\* The slot a new sync() call takes, while the model has room for one.
FreeSlot(c, k) ==
  /\ runs[c][k].pc = "idle"
  /\ \A j \in 1..(k - 1) : runs[c][j].pc # "idle"

\* Installations at rest: the engines hold the user's token, their tickers
\* run and no sync() is in flight.
AtRest ==
  /\ authToken = [c \in Clients |-> Some(UserOf(c))]
  /\ tomorrowTasks = [c \in Clients |-> <<>>]
  /\ settings = [c \in Clients |-> Null]
  /\ srvTasks = <<>>
  /\ srvSettings = [u \in Users |-> Null]
  /\ status = [c \in Clients |-> "idle"]
  /\ isOnline = [c \in Clients |-> TRUE]
  /\ syncInterval = [c \in Clients |-> TRUE]
  /\ syncDebounceTimer = [c \in Clients |-> <<>>]
  /\ runs = [c \in Clients |-> [k \in Slots |-> IdleRun]]
  /\ emitted = <<>>
  /\ edits = 0
  /\ failures = 0
  /\ tombstoned = [c \in Clients |-> NoTombstones]

\* The installations have been started: each engine was constructed over an
\* empty store, and its initialize() has run the first sync() against the
\* empty server (one pull per installation, at the times 1 and 2).
FirstSyncedAt(c) == IF c = "A" THEN 1 ELSE 2

Init ==
  /\ AtRest
  /\ now = 2
  /\ srvBlocks = <<>>
  /\ blocks = [c \in Clients |-> <<>>]
  /\ syncState = [c \in Clients |-> [lastSyncedAt |-> Some(FirstSyncedAt(c))]]

\* Later, the user has a block on both installations.  A saved "x" under a
\* fresh id and synced it (push at 3, pull at 4) and B pulled it at 5.
FirstInput ==
  [id |-> <<"b1">>, text |-> <<"x">>, createdAt |-> Some(0), calendarEventId |-> Null,
   position |-> Some(0)]

FirstRow ==
  AcceptInsert(SavedBlock(<<>>, FirstInput, "A", ClientNow("A")),
               UserOf("A"), "A", 3)

\* The record an installation holds of a row it has merged.
Held(row, c) ==
  ToLocal(Wire(row), "synced", Some(row.version), Some(ClientNow(c)))

\* Then either both installations synced again with nothing to do (A pulled
\* at 6 and B at 7), or A saved its own text and synced it (push at 6, pull
\* at 7) and B has not synced since.
SecondInput ==
  [id |-> <<"b1">>, text |-> <<"A">>, createdAt |-> Some(0), calendarEventId |-> Null,
   position |-> Some(0)]

SecondRow ==
  AcceptUpdate(FirstRow,
               SavedBlock(<<Held(FirstRow, "A")>>, SecondInput, "A",
                          ClientNow("A")),
               "A", 6)

InitShared ==
  /\ AtRest
  /\ now = 7
  /\ \/ /\ srvBlocks = <<FirstRow>>
        /\ blocks = [c \in Clients |-> <<Held(FirstRow, c)>>]
        /\ syncState = [c \in Clients |->
             [lastSyncedAt |-> Some(IF c = "A" THEN 6 ELSE 7)]]
     \/ /\ srvBlocks = <<SecondRow>>
        /\ blocks = [c \in Clients |->
             <<Held(IF c = "A" THEN SecondRow ELSE FirstRow, c)>>]
        /\ syncState = [c \in Clients |->
             [lastSyncedAt |-> Some(IF c = "A" THEN 7 ELSE 5)]]

(* --------------------------- engine: sync() --------------------------- *)

\* The settings argument of api.pushChanges: pushPendingChanges passes the
\* blocks and the tasks and leaves it undefined.
PushedSettings(c) == Null

\* The run a sync() call starts: the push of the pending records, or, with
\* nothing pending, the pull.
StartedRun(c) ==
  LET pending == getPendingBlocks(blocks[c])
      pendingTasks == getPendingTomorrowTasks(tomorrowTasks[c])
      after == UNION {tombstoned[d].synced : d \in Clients \ {c}}
  IN  IF pending = <<>> /\ pendingTasks = <<>>
      THEN [IdleRun EXCEPT !.pc = "pulling",
                           !.since = syncState[c].lastSyncedAt,
                           !.after = after,
                           !.saved = settings[c]]
      ELSE [IdleRun EXCEPT !.pc = "pushing", !.pushed = pending,
                           !.pushedTasks = pendingTasks,
                           !.after = after,
                           !.saved = settings[c]]

\* A sync() that starts a run whatever the token and the connection.
SyncCallUnguarded(c, before) ==
  \E k \in Slots :
    /\ FreeSlot(c, k)
    /\ status' = [status EXCEPT ![c] = "syncing"]
    /\ emitted' = before \o StatusEvents(c, "syncing")
    /\ runs' = [runs EXCEPT ![c][k] = StartedRun(c)]

\* A call of sync(), up to its first request.  It sets status, runs and
\* emitted; the caller sets the rest.
SyncCall(c, before) ==
  IF ~isLoggedIn(c)
  THEN /\ emitted' = before
       /\ UNCHANGED <<status, runs>>
  ELSE IF ~isOnline[c]
  THEN /\ status' = [status EXCEPT ![c] = "offline"]
       /\ emitted' = before \o StatusEvents(c, "offline")
       /\ UNCHANGED runs
  ELSE \E k \in Slots :
         /\ FreeSlot(c, k)
         /\ status' = [status EXCEPT ![c] = "syncing"]
         /\ emitted' = before \o StatusEvents(c, "syncing")
         /\ runs' = [runs EXCEPT ![c][k] = StartedRun(c)]

\* The editor's own sync() call.
Sync(c) ==
  /\ SyncCall(c, <<>>)
  /\ UNCHANGED <<server, storage, isOnline, timers, budget, tombstoned>>

\* The debounce timer fires.
DebounceFire(c) ==
  /\ syncDebounceTimer[c] # <<>>
  /\ syncDebounceTimer' = [syncDebounceTimer EXCEPT ![c] = Tail(@)]
  /\ SyncCall(c, <<>>)
  /\ UNCHANGED <<server, storage, isOnline, syncInterval, budget,
                 tombstoned>>

\* The periodic ticker fires.
PeriodicTick(c) ==
  /\ syncInterval[c]
  /\ isOnline[c]
  /\ SyncCall(c, <<>>)
  /\ UNCHANGED <<server, storage, isOnline, timers, budget, tombstoned>>

(* ----------------------- engine: local mutations ---------------------- *)

\* clearTimeout(this.syncDebounceTimer): the handle is the timeout set last.
clearTimeout(pending) ==
  IF pending = <<>> THEN pending ELSE SubSeq(pending, 1, Len(pending) - 1)

\* debouncedSync() without its clearTimeout.
DebouncedSyncLeaking(c) ==
  syncDebounceTimer' =
    [syncDebounceTimer EXCEPT
       ![c] = IF isOnline[c] /\ isLoggedIn(c)
              THEN @ \o <<DebounceDelay>>
              ELSE @]

\* debouncedSync(), called when the engine is online and logged in.
DebouncedSync(c) ==
  syncDebounceTimer' =
    [syncDebounceTimer EXCEPT
       ![c] = IF isOnline[c] /\ isLoggedIn(c)
              THEN clearTimeout(@) \o <<DebounceDelay>>
              ELSE @]

ListedIds(c) == {b.id : b \in Range(getBlocks(blocks[c]))}

\* The partials the editor passes to saveBlock.
BlockInputs(c) ==
  [id : BlockIds, text : Texts(c), createdAt : {Some(0)},
   calendarEventId : {Null}, position : {Some(0)}]

SaveBlock(c, p) ==
  /\ edits' = edits + 1
  /\ blocks' = [blocks EXCEPT
       ![c] = updateLocalBlock(@, SavedBlock(@, p, c, ClientNow(c)))]
  /\ emitted' = <<ListEvent(c, "blocks-updated", getBlocks(blocks'[c]))>>
  /\ DebouncedSync(c)
  /\ tombstoned' = [d \in Clients |->
       [deleted |-> tombstoned[d].deleted \ {p.id},
        synced |-> tombstoned[d].synced \ {p.id}]]
  /\ runs' = [d \in Clients |-> [k \in Slots |->
       [runs[d][k] EXCEPT !.after = @ \ {p.id}]]]
  /\ UNCHANGED <<server, authToken, tomorrowTasks, settings, syncState,
                 status, isOnline, syncInterval, failures>>

DeleteBlock(c, id) ==
  /\ edits' = edits + 1
  /\ blocks' = [blocks EXCEPT ![c] = deleteLocalBlock(@, id, ClientNow(c))]
  /\ emitted' = <<ListEvent(c, "blocks-updated", getBlocks(blocks'[c]))>>
  /\ DebouncedSync(c)
  /\ tombstoned' = [tombstoned EXCEPT ![c].deleted = @ \cup {id}]
  /\ UNCHANGED <<server, authToken, tomorrowTasks, settings, syncState,
                 status, isOnline, syncInterval, runs, failures>>

TaskIds == {<<"t1">>}

\* The partials the editor passes to saveTomorrowTask.
TaskInputs(c) ==
  [id : TaskIds, text : Texts(c), time : {Null}, position : {Some(0)}]

\* The LocalTomorrowTask that saveTomorrowTask(p) stores.
SavedTask(list, p, clientId, t) ==
  LET i == FindIndex(list, p.id)
      existing == IF i > 0 THEN Some(list[i]) ELSE Null
  IN  [id |-> p.id,
       text |-> p.text,
       time |-> IF p.time # Null THEN p.time
                ELSE IF existing # Null THEN existing[1].time
                ELSE Null,
       position |-> IF p.position # Null THEN p.position[1]
                    ELSE IF existing # Null THEN existing[1].position
                    ELSE 0,
       version |-> (IF existing # Null THEN existing[1].version ELSE 0) + 1,
       updatedAt |-> t,
       deletedAt |-> Null,
       clientId |-> clientId,
       syncStatus |-> "pending",
       serverVersion |-> IF existing # Null THEN existing[1].serverVersion
                         ELSE Null,
       lastSyncedAt |-> IF existing # Null THEN existing[1].lastSyncedAt
                        ELSE Null]

\* The ids getTomorrowTasks() lists.
ListedTaskIds(c) ==
  {t.id : t \in {x \in Range(tomorrowTasks[c]) : x.deletedAt = Null}}

SaveTomorrowTask(c, p) ==
  /\ edits' = edits + 1
  /\ tomorrowTasks' = [tomorrowTasks EXCEPT
       ![c] = updateLocalBlock(@, SavedTask(@, p, c, ClientNow(c)))]
  /\ emitted' = <<ListEvent(c, "tomorrow-tasks-updated",
                          getTomorrowTasks(tomorrowTasks'[c]))>>
  /\ DebouncedSync(c)
  /\ UNCHANGED <<server, authToken, blocks, settings, syncState, status,
                 isOnline, syncInterval, runs, failures, tombstoned>>

\* deleteTomorrowTask(id) where the store has the task.
DeleteTomorrowTask(c, id) ==
  /\ FindIndex(tomorrowTasks[c], id) > 0
  /\ edits' = edits + 1
  /\ tomorrowTasks' = [tomorrowTasks EXCEPT
       ![c] = deleteLocalBlock(@, id, ClientNow(c))]
  /\ emitted' = <<ListEvent(c, "tomorrow-tasks-updated",
                          getTomorrowTasks(tomorrowTasks'[c]))>>
  /\ DebouncedSync(c)
  /\ UNCHANGED <<server, authToken, blocks, settings, syncState, status,
                 isOnline, syncInterval, runs, failures, tombstoned>>

\* The partials the settings page passes to saveSettings.
SettingsInputs ==
  {[theme |-> Some("dark"), dayCutHour |-> Null],
   [theme |-> Null, dayCutHour |-> Some(5)]}

\* The SyncSettings that saveSettings(p) stores.
SavedSettings(current, p, t) ==
  LET base == IF current # Null THEN current[1]
              ELSE [theme |-> "system", dayCutHour |-> DayCutHourDefault,
                    updatedAt |-> t]
  IN  [theme |-> IF p.theme # Null THEN p.theme[1] ELSE base.theme,
       dayCutHour |-> IF p.dayCutHour # Null THEN p.dayCutHour[1]
                      ELSE base.dayCutHour,
       updatedAt |-> t]

SaveSettings(c, p) ==
  /\ settings' = [settings EXCEPT
       ![c] = Some(SavedSettings(@, p, ClientNow(c)))]
  /\ emitted' = <<Event(c, "settings-updated", "")>>
  /\ DebouncedSync(c)
  /\ UNCHANGED <<server, authToken, blocks, tomorrowTasks, syncState, status,
                 isOnline, syncInterval, runs, budget, tombstoned>>

(* ------------------------ the steps of a sync() ----------------------- *)

\* The server handles the push of run k of client c.
ServerPush(c, k) ==
  LET r == runs[c][k]
      t == now + 1
      outBlocks == PushBlocks(srvBlocks, EmptyPushResponse, UserOf(c), c,
                              r.pushed, t)
      out == PushTasks(srvTasks, outBlocks.resp, UserOf(c), c,
                       r.pushedTasks, t)
  IN  /\ r.pc = "pushing"
      /\ now' = t
      /\ srvBlocks' = outBlocks.table
      /\ srvTasks' = out.table
      /\ srvSettings' = [srvSettings EXCEPT
           ![UserOf(c)] = PushSettings(@, PushedSettings(c))]
      /\ runs' = [runs EXCEPT ![c][k].pc = "pushed",
                              ![c][k].pushResp = Some(out.resp)]
      /\ emitted' = <<>>
      /\ UNCHANGED <<storage, status, isOnline, timers, budget, tombstoned>>

\* pushPendingChanges after its await, then sync() up to its pull request.
PushResponse(c, k) ==
  LET r == runs[c][k]
      resp == r.pushResp[1]
  IN  /\ r.pc = "pushed"
      /\ r.via = "sync"
      /\ blocks' = [blocks EXCEPT
           ![c] = IF resp.applied # <<>>
                  THEN markBlocksSynced(@, resp.applied, ClientNow(c))
                  ELSE @]
      /\ tomorrowTasks' = [tomorrowTasks EXCEPT
           ![c] = IF resp.appliedTasks # <<>>
                  THEN markTomorrowTasksSynced(@, resp.appliedTasks,
                                               ClientNow(c))
                  ELSE @]
      /\ emitted' = IF resp.conflicts # <<>>
                    THEN <<Event(c, "conflict-detected", "")>>
                    ELSE <<>>
      /\ runs' = [runs EXCEPT ![c][k].pc = "pulling",
                              ![c][k].since = syncState[c].lastSyncedAt]
      /\ UNCHANGED <<server, authToken, settings, syncState, status,
                     isOnline, timers, budget, tombstoned>>

\* The server handles the pull of run k of client c.
ServerPull(c, k) ==
  LET r == runs[c][k]
      t == now + 1
  IN  /\ r.pc = "pulling"
      /\ now' = t
      /\ runs' = [runs EXCEPT
           ![c][k].pc = "pulled",
           ![c][k].pullResp =
              Some([blocks |-> PullBlocks(srvBlocks, UserOf(c), r.since),
                    tomorrowTasks |->
                      PullTasks(srvTasks, UserOf(c), r.since),
                    settings |->
                      PullSettings(srvSettings[UserOf(c)], r.since),
                    syncedAt |-> t])]
      /\ emitted' = <<>>
      /\ UNCHANGED <<srvBlocks, srvTasks, srvSettings, storage, status,
                     isOnline, timers, budget, tombstoned>>

\* sync() after the pull's await: merge, move the cursor, settle in idle.
PullResponse(c, k) ==
  LET r == runs[c][k]
      resp == r.pullResp[1]
  IN  /\ r.pc = "pulled"
      /\ blocks' = [blocks EXCEPT
           ![c] = IF resp.blocks # <<>>
                  THEN mergeServerBlocks(@, resp.blocks, ClientNow(c))
                  ELSE @]
      /\ tomorrowTasks' = [tomorrowTasks EXCEPT
           ![c] = IF resp.tomorrowTasks # <<>>
                  THEN mergeServerTomorrowTasks(@, resp.tomorrowTasks,
                                                ClientNow(c))
                  ELSE @]
      /\ settings' = [settings EXCEPT
           ![c] = IF resp.settings # Null THEN resp.settings ELSE @]
      /\ syncState' = [syncState EXCEPT
           ![c] = [lastSyncedAt |-> Some(resp.syncedAt)]]
      /\ status' = [status EXCEPT ![c] = "idle"]
      /\ emitted' =
           (IF resp.blocks # <<>>
            THEN <<ListEvent(c, "blocks-updated", blocks'[c])>> ELSE <<>>)
             \o (IF resp.tomorrowTasks # <<>>
                 THEN <<ListEvent(c, "tomorrow-tasks-updated",
                                  tomorrowTasks'[c])>>
                 ELSE <<>>)
             \o (IF resp.settings # Null
                 THEN <<Event(c, "settings-updated", "")>> ELSE <<>>)
             \o StatusEvents(c, "idle")
      /\ runs' = [runs EXCEPT ![c][k] = IdleRun]
      /\ tombstoned' = [tombstoned EXCEPT
           ![c].synced = @ \cup
              {id \in tombstoned[c].deleted :
                 \E p \in Range(r.pushed) : p.id = id /\ p.deletedAt # Null}]
      /\ UNCHANGED <<server, authToken, isOnline, timers, budget>>

\* A catch that takes the records of the failed request for sent.
SyncFailedMarksSynced(c, k, what) ==
  /\ failures' = failures + 1
  /\ status' = [status EXCEPT ![c] = "error"]
  /\ emitted' = StatusEvents(c, "error") \o <<Event(c, "error", what)>>
  /\ blocks' = [blocks EXCEPT
       ![c] = markBlocksSynced(@, [i \in 1..Len(runs[c][k].pushed) |->
                                     runs[c][k].pushed[i].id], ClientNow(c))]
  /\ runs' = [runs EXCEPT ![c][k] = IdleRun]
  /\ UNCHANGED <<server, authToken, tomorrowTasks, settings, syncState,
                 isOnline, timers, edits, tombstoned>>

\* The catch of sync(): the request of run k failed.
SyncFailed(c, k, what) ==
  /\ failures' = failures + 1
  /\ status' = [status EXCEPT ![c] = "error"]
  /\ emitted' = StatusEvents(c, "error") \o <<Event(c, "error", what)>>
  /\ runs' = [runs EXCEPT ![c][k] = IdleRun]
  /\ UNCHANGED <<server, storage, isOnline, timers, edits, tombstoned>>

\* The push request fails: it is lost, or its answer is.
PushFail(c, k) ==
  /\ runs[c][k].pc \in {"pushing", "pushed"}
  /\ runs[c][k].via = "sync"
  /\ SyncFailed(c, k, "push")

\* The pull request fails.
PullFail(c, k) ==
  /\ runs[c][k].pc \in {"pulling", "pulled"}
  /\ SyncFailed(c, k, "pull")

(* ------------------ engine: signIn, fullSync, signOut ----------------- *)

\* fullSync() up to its request, as run k of client c: it returns at once
\* when the engine is signed out or offline.  It sets status, runs and
\* emitted.
FullSyncCall(c, k, via, loggedIn, before) ==
  IF ~loggedIn \/ ~isOnline[c]
  THEN /\ emitted' = before
       /\ runs' = [runs EXCEPT ![c][k] = IdleRun]
       /\ UNCHANGED status
  ELSE /\ status' = [status EXCEPT ![c] = "syncing"]
       /\ emitted' = before \o StatusEvents(c, "syncing")
       /\ runs' = [runs EXCEPT ![c][k].pc = "fulling", ![c][k].via = via]

\* startPeriodicSync() at the end of signIn.
SignInEnds(c, k) ==
  syncInterval' =
    [syncInterval EXCEPT ![c] = @ \/ (runs[c][k].via = "signIn"
                                        /\ runs'[c][k].pc = "idle")]

\* A signIn that calls fullSync() without pushing first.
SignInFullFirst(c) ==
  /\ ~isLoggedIn(c)
  /\ authToken' = [authToken EXCEPT ![c] = Some(UserOf(c))]
  /\ \E k \in Slots :
       /\ FreeSlot(c, k)
       /\ FullSyncCall(c, k, "signIn", TRUE, <<>>)
       /\ syncInterval' =
            [syncInterval EXCEPT ![c] = @ \/ runs'[c][k].pc = "idle"]
  /\ UNCHANGED <<server, blocks, tomorrowTasks, settings, syncState,
                 isOnline, syncDebounceTimer, budget, tombstoned>>

\* signIn: the token exchange has succeeded; pushPendingChanges sends the
\* pending records, or fullSync starts when there are none.
SignIn(c) ==
  LET pending == getPendingBlocks(blocks[c])
      pendingTasks == getPendingTomorrowTasks(tomorrowTasks[c])
  IN  /\ ~isLoggedIn(c)
      /\ authToken' = [authToken EXCEPT ![c] = Some(UserOf(c))]
      /\ \E k \in Slots :
           /\ FreeSlot(c, k)
           /\ IF pending = <<>> /\ pendingTasks = <<>>
              THEN /\ FullSyncCall(c, k, "signIn", TRUE, <<>>)
                   /\ syncInterval' =
                        [syncInterval EXCEPT
                           ![c] = @ \/ runs'[c][k].pc = "idle"]
              ELSE /\ runs' = [runs EXCEPT
                        ![c][k] = [IdleRun EXCEPT
                                     !.pc = "pushing", !.via = "signIn",
                                     !.pushed = pending,
                                     !.pushedTasks = pendingTasks]]
                   /\ emitted' = <<>>
                   /\ UNCHANGED <<status, syncInterval>>
      /\ UNCHANGED <<server, blocks, tomorrowTasks, settings, syncState,
                     isOnline, syncDebounceTimer, budget, tombstoned>>

\* signIn after the push's await: pushPendingChanges marks what was applied
\* and fullSync() starts.
SignInPushResponse(c, k) ==
  LET r == runs[c][k]
      resp == r.pushResp[1]
  IN  /\ r.pc = "pushed"
      /\ r.via = "signIn"
      /\ blocks' = [blocks EXCEPT
           ![c] = IF resp.applied # <<>>
                  THEN markBlocksSynced(@, resp.applied, ClientNow(c))
                  ELSE @]
      /\ tomorrowTasks' = [tomorrowTasks EXCEPT
           ![c] = IF resp.appliedTasks # <<>>
                  THEN markTomorrowTasksSynced(@, resp.appliedTasks,
                                               ClientNow(c))
                  ELSE @]
      /\ FullSyncCall(c, k, "signIn", isLoggedIn(c),
                      IF resp.conflicts # <<>>
                      THEN <<Event(c, "conflict-detected", "")>>
                      ELSE <<>>)
      /\ SignInEnds(c, k)
      /\ UNCHANGED <<server, authToken, settings, syncState, isOnline,
                     syncDebounceTimer, budget, tombstoned>>

\* The push of signIn fails: signIn rethrows to its caller.
SignInPushFail(c, k) ==
  /\ runs[c][k].pc \in {"pushing", "pushed"}
  /\ runs[c][k].via = "signIn"
  /\ failures' = failures + 1
  /\ runs' = [runs EXCEPT ![c][k] = IdleRun]
  /\ emitted' = <<>>
  /\ UNCHANGED <<server, storage, status, isOnline, timers, edits,
                 tombstoned>>

\* fullSync() called by the application.
FullSync(c) ==
  /\ \E k \in Slots :
       /\ FreeSlot(c, k)
       /\ FullSyncCall(c, k, "full", isLoggedIn(c), <<>>)
  /\ UNCHANGED <<server, storage, isOnline, timers, budget, tombstoned>>

\* The server handles the full sync of run k of client c.
ServerFull(c, k) ==
  LET r == runs[c][k]
      t == now + 1
  IN  /\ r.pc = "fulling"
      /\ now' = t
      /\ runs' = [runs EXCEPT
           ![c][k].pc = "fulled",
           ![c][k].pullResp =
              Some([blocks |-> FullBlocks(srvBlocks, UserOf(c)),
                    tomorrowTasks |-> FullTasks(srvTasks, UserOf(c)),
                    settings |-> srvSettings[UserOf(c)],
                    syncedAt |-> t])]
      /\ emitted' = <<>>
      /\ UNCHANGED <<srvBlocks, srvTasks, srvSettings, storage, status,
                     isOnline, timers, budget, tombstoned>>

\* fullSync() after its await: the local lists are replaced by the server's.
\* A fullSync() that merges the response into the local lists, as sync()
\* does with a pull.
FullResponseMerged(c, k) ==
  LET r == runs[c][k]
      resp == r.pullResp[1]
  IN  /\ r.pc = "fulled"
      /\ blocks' = [blocks EXCEPT
           ![c] = mergeServerBlocks(@, resp.blocks, resp.syncedAt)]
      /\ tomorrowTasks' = [tomorrowTasks EXCEPT
           ![c] = mergeServerTomorrowTasks(@, resp.tomorrowTasks,
                                           resp.syncedAt)]
      /\ settings' = [settings EXCEPT
           ![c] = IF resp.settings # Null THEN resp.settings ELSE @]
      /\ syncState' = [syncState EXCEPT
           ![c] = [lastSyncedAt |-> Some(resp.syncedAt)]]
      /\ status' = [status EXCEPT ![c] = "idle"]
      /\ emitted' =
           <<ListEvent(c, "blocks-updated", blocks'[c]),
             ListEvent(c, "tomorrow-tasks-updated", tomorrowTasks'[c])>>
             \o (IF resp.settings # Null
                 THEN <<Event(c, "settings-updated", "")>> ELSE <<>>)
             \o StatusEvents(c, "idle")
      /\ runs' = [runs EXCEPT ![c][k] = IdleRun]
      /\ SignInEnds(c, k)
      /\ UNCHANGED <<server, authToken, isOnline, syncDebounceTimer, budget,
                     tombstoned>>

FullResponse(c, k) ==
  LET r == runs[c][k]
      resp == r.pullResp[1]
  IN  /\ r.pc = "fulled"
      /\ blocks' = [blocks EXCEPT
           ![c] = [i \in 1..Len(resp.blocks) |->
                     ToLocal(resp.blocks[i], "synced",
                             Some(resp.blocks[i].version),
                             Some(resp.syncedAt))]]
      /\ tomorrowTasks' = [tomorrowTasks EXCEPT
           ![c] = [i \in 1..Len(resp.tomorrowTasks) |->
                     ToLocalTask(resp.tomorrowTasks[i], "synced",
                                 Some(resp.tomorrowTasks[i].version),
                                 Some(resp.syncedAt))]]
      /\ settings' = [settings EXCEPT
           ![c] = IF resp.settings # Null THEN resp.settings ELSE @]
      /\ syncState' = [syncState EXCEPT
           ![c] = [lastSyncedAt |-> Some(resp.syncedAt)]]
      /\ status' = [status EXCEPT ![c] = "idle"]
      /\ emitted' =
           <<ListEvent(c, "blocks-updated", blocks'[c]),
             ListEvent(c, "tomorrow-tasks-updated", tomorrowTasks'[c])>>
             \o (IF resp.settings # Null
                 THEN <<Event(c, "settings-updated", "")>> ELSE <<>>)
             \o StatusEvents(c, "idle")
      /\ runs' = [runs EXCEPT ![c][k] = IdleRun]
      /\ SignInEnds(c, k)
      /\ UNCHANGED <<server, authToken, isOnline, syncDebounceTimer, budget,
                     tombstoned>>

\* The full sync request fails: the catch of fullSync().
FullFail(c, k) ==
  /\ runs[c][k].pc \in {"fulling", "fulled"}
  /\ failures' = failures + 1
  /\ status' = [status EXCEPT ![c] = "error"]
  /\ emitted' = StatusEvents(c, "error") \o <<Event(c, "error", "full")>>
  /\ runs' = [runs EXCEPT ![c][k] = IdleRun]
  /\ SignInEnds(c, k)
  /\ UNCHANGED <<server, storage, isOnline, syncDebounceTimer, edits,
                 tombstoned>>

\* A signOut() that also empties the local lists and the sync state.
SignOutWiping(c) ==
  /\ isLoggedIn(c)
  /\ authToken' = [authToken EXCEPT ![c] = Null]
  /\ blocks' = [blocks EXCEPT ![c] = <<>>]
  /\ tomorrowTasks' = [tomorrowTasks EXCEPT ![c] = <<>>]
  /\ syncState' = [syncState EXCEPT ![c] = [lastSyncedAt |-> Null]]
  /\ syncInterval' = [syncInterval EXCEPT ![c] = FALSE]
  /\ status' = [status EXCEPT ![c] = "idle"]
  /\ emitted' = StatusEvents(c, "idle")
  /\ UNCHANGED <<server, settings, isOnline, syncDebounceTimer, runs, budget,
                 tombstoned>>

\* signOut(): the local data stays.
SignOut(c) ==
  /\ isLoggedIn(c)
  /\ authToken' = [authToken EXCEPT ![c] = Null]
  /\ syncInterval' = [syncInterval EXCEPT ![c] = FALSE]
  /\ status' = [status EXCEPT ![c] = "idle"]
  /\ emitted' = StatusEvents(c, "idle")
  /\ UNCHANGED <<server, blocks, tomorrowTasks, settings, syncState,
                 isOnline, syncDebounceTimer, runs, budget, tombstoned>>

\* handleOnline(): the window's online event.  sync() is called and not
\* awaited: it runs up to its first request, and setStatus("idle") follows
\* while the run is in flight.
HandleOnline(c) ==
  /\ ~isOnline[c]
  /\ isOnline' = [isOnline EXCEPT ![c] = TRUE]
  /\ IF isLoggedIn(c)
     THEN \E k \in Slots :
            /\ FreeSlot(c, k)
            /\ runs' = [runs EXCEPT ![c][k] = StartedRun(c)]
            /\ emitted' = StatusEvents(c, "syncing")
                            \o <<Event(c, "status-change", "idle")>>
     ELSE /\ emitted' = StatusEvents(c, "idle")
          /\ UNCHANGED runs
  /\ status' = [status EXCEPT ![c] = "idle"]
  /\ UNCHANGED <<server, storage, timers, budget, tombstoned>>

\* handleOffline(): the window's offline event.
HandleOffline(c) ==
  /\ isOnline[c]
  /\ isOnline' = [isOnline EXCEPT ![c] = FALSE]
  /\ status' = [status EXCEPT ![c] = "offline"]
  /\ emitted' = StatusEvents(c, "offline")
  /\ UNCHANGED <<server, storage, timers, runs, budget, tombstoned>>

\* fetchApi: the server answers the request of run k with 401.  The Error it
\* throws lands in the catch of sync() or of fullSync(), or leaves signIn
\* through pushPendingChanges.
Unauthorized(c, k) ==
  LET r == runs[c][k]
  IN  /\ r.pc \in {"pushing", "pulling", "fulling"}
      /\ failures' = failures + 1
      /\ runs' = [runs EXCEPT ![c][k] = IdleRun]
      /\ IF r.pc = "pushing" /\ r.via = "signIn"
         THEN /\ emitted' = <<>>
              /\ UNCHANGED <<status, syncInterval>>
         ELSE /\ status' = [status EXCEPT ![c] = "error"]
              /\ emitted' = StatusEvents(c, "error")
                              \o <<Event(c, "error", "401")>>
              /\ SignInEnds(c, k)
      /\ UNCHANGED <<server, storage, isOnline, syncDebounceTimer, edits,
                     tombstoned>>

(* --------------------------- specifications --------------------------- *)

\* An engine whose sync() calls do not overlap.
Serial(c) == InFlight(c) = {}

\* Two installations of one user: their requests succeed and their triggers
\* are spaced so that an engine's sync() calls do not overlap.  A behaviour
\* has at most maxEdits local mutations.
Step(maxEdits) ==
  \E c \in Clients :
    \/ Serial(c) /\ Sync(c)
    \/ Serial(c) /\ DebounceFire(c)
    \/ Serial(c) /\ PeriodicTick(c)
    \/ edits < maxEdits /\ \E p \in BlockInputs(c) : SaveBlock(c, p)
    \/ edits < maxEdits
         /\ \E id \in BlockIds \cap ListedIds(c) : DeleteBlock(c, id)
    \/ \E k \in Slots :
         \/ now < MaxTime /\ ServerPush(c, k)
         \/ PushResponse(c, k)
         \/ now < MaxTime /\ ServerPull(c, k)
         \/ PullResponse(c, k)

Next == Step(MaxEdits)

\* The two installations hold a block in common.
Spec == InitShared /\ [][Next]_vars

NextDeep == Step(MaxDeepEdits)

\* The same installations, followed through more local mutations.
SpecDeep == InitShared /\ [][NextDeep]_vars

\* One installation alone, whose requests may fail; its sync() calls overlap
\* when overlap holds and are spaced otherwise.
Solo == "A"

SoloStep(overlap) ==
  \/ (overlap \/ Serial(Solo)) /\ Sync(Solo)
  \/ (overlap \/ Serial(Solo)) /\ DebounceFire(Solo)
  \/ (overlap \/ Serial(Solo)) /\ PeriodicTick(Solo)
  \/ edits < MaxEdits /\ \E p \in BlockInputs(Solo) : SaveBlock(Solo, p)
  \/ edits < MaxEdits
       /\ \E id \in BlockIds \cap ListedIds(Solo) : DeleteBlock(Solo, id)
  \/ \E k \in Slots :
       \/ now < MaxSoloTime /\ ServerPush(Solo, k)
       \/ PushResponse(Solo, k)
       \/ now < MaxSoloTime /\ ServerPull(Solo, k)
       \/ PullResponse(Solo, k)
       \/ failures < MaxFailures /\ PushFail(Solo, k)
       \/ failures < MaxFailures /\ PullFail(Solo, k)

NextSolo == SoloStep(FALSE)

\* Triggers that wait for the sync() in flight.
SpecSolo == Init /\ [][NextSolo]_vars

NextOverlap == SoloStep(TRUE)

\* Triggers that come at any moment.
SpecOverlap == Init /\ [][NextOverlap]_vars

\* generateId(): an id that no installation holds and the server has not
\* stored.
Fresh(id) ==
  /\ \A c \in Clients : ~HasId(blocks[c], id)
  /\ ~HasId(srvBlocks, id)

\* No sync() is in flight on any installation.
Quiet == \A c \in Clients : Serial(c)

\* Two installations that start with nothing and take turns: a sync() starts
\* when none is in flight, a new block gets a fresh id and an installation
\* edits the blocks it lists.
NextTrip ==
  \E c \in Clients :
    \/ Quiet /\ Sync(c)
    \/ Quiet /\ DebounceFire(c)
    \/ Quiet /\ PeriodicTick(c)
    \/ edits < MaxDeepEdits
         /\ \E p \in BlockInputs(c) :
              /\ p.id \in ListedIds(c) \/ Fresh(p.id)
              /\ SaveBlock(c, p)
    \/ edits < MaxDeepEdits
         /\ \E id \in BlockIds \cap ListedIds(c) : DeleteBlock(c, id)
    \/ \E k \in Slots :
         \/ now < MaxTripTime /\ ServerPush(c, k)
         \/ PushResponse(c, k)
         \/ now < MaxTripTime /\ ServerPull(c, k)
         \/ PullResponse(c, k)

SpecTrip == Init /\ [][NextTrip]_vars

\* An installation that is signed out while the user's other installation
\* has been at work, and the behaviours of signing in, signing out and
\* asking for a full sync; no timer fires in them.  A has no block, or holds the shared block as it first
\* pulled it; since then B has left it alone, or saved its own text and
\* synced (push at 8), or deleted it after that and synced (push at 9).  The
\* server may also hold a block that B alone has seen, and it holds a block
\* of another user.
EditedRow ==
  AcceptUpdate(FirstRow,
               SavedBlock(<<Held(FirstRow, "B")>>,
                          [id |-> <<"b1">>, text |-> <<"B">>,
                           createdAt |-> Some(0), calendarEventId |-> Null, position |-> Some(0)],
                          "B", ClientNow("B")),
               "B", 8)

DeletedRow ==
  AcceptUpdate(EditedRow,
               deleteLocalBlock(<<Held(EditedRow, "B")>>, <<"b1">>,
                                ClientNow("B"))[1],
               "B", 9)

OtherRow ==
  AcceptInsert(SavedBlock(<<>>, [id |-> <<"b0">>, text |-> <<"y">>,
                                 createdAt |-> Some(0), calendarEventId |-> Null,
                                 position |-> Some(1)],
                          "B", ClientNow("B")),
               UserOf("B"), "B", 4)

ForeignRow ==
  [id |-> <<"b9">>, userId |-> "u2", text |-> <<"z">>, createdAt |-> 0, calendarEventId |-> Null,
   position |-> 0, version |-> 1, updatedAt |-> 5, deletedAt |-> Null,
   clientId |-> "Z"]

InitSignedOut ==
  /\ authToken = [c \in Clients |-> IF c = "A" THEN Null
                                     ELSE Some(UserOf(c))]
  /\ syncInterval = [c \in Clients |-> c # "A"]
  /\ tomorrowTasks = [c \in Clients |-> <<>>]
  /\ settings = [c \in Clients |-> Null]
  /\ srvTasks = <<>>
  /\ srvSettings = [u \in Users |-> Null]
  /\ status = [c \in Clients |-> "idle"]
  /\ isOnline = [c \in Clients |-> TRUE]
  /\ syncDebounceTimer = [c \in Clients |-> <<>>]
  /\ runs = [c \in Clients |-> [k \in Slots |-> IdleRun]]
  /\ emitted = <<>>
  /\ edits = 0
  /\ failures = 0
  /\ tombstoned = [c \in Clients |-> NoTombstones]
  /\ now = 9
  /\ \E shared \in {<<>>, <<FirstRow>>, <<EditedRow>>, <<DeletedRow>>},
        other \in {<<>>, <<OtherRow>>} :
       /\ srvBlocks = <<ForeignRow>> \o other \o shared
       /\ blocks = [c \in Clients |->
            IF c = "A"
            THEN IF shared = <<>> THEN <<>> ELSE <<Held(FirstRow, c)>>
            ELSE [i \in 1..Len(other \o shared) |->
                    Held((other \o shared)[i], c)]]
       /\ syncState = [c \in Clients |->
            [lastSyncedAt |->
               IF c = "A"
               THEN IF shared = <<>> THEN Null ELSE Some(5)
               ELSE Some(9)]]

NextSignIn ==
  \/ SignIn(Solo)
  \/ Serial(Solo) /\ SignOut(Solo)
  \/ Serial(Solo) /\ FullSync(Solo)
  \/ edits < MaxOfflineEdits
       /\ \E p \in BlockInputs(Solo) :
            /\ p.id \in ListedIds(Solo) \/ Fresh(p.id)
            /\ SaveBlock(Solo, p)
  \/ edits < MaxOfflineEdits
       /\ \E id \in BlockIds \cap ListedIds(Solo) : DeleteBlock(Solo, id)
  \/ \E k \in Slots :
       \/ now < MaxSignInTime /\ ServerPush(Solo, k)
       \/ SignInPushResponse(Solo, k)
       \/ now < MaxSignInTime /\ ServerFull(Solo, k)
       \/ FullResponse(Solo, k)
       \/ failures < MaxFailures /\ SignInPushFail(Solo, k)
       \/ failures < MaxFailures /\ FullFail(Solo, k)

SpecSignIn == InitSignedOut /\ [][NextSignIn]_vars

\* One installation with blocks, tomorrow tasks and settings: its syncs, its
\* full syncs, and the server refusing its token.
NextDevice ==
  \/ Serial(Solo) /\ Sync(Solo)
  \/ Serial(Solo) /\ DebounceFire(Solo)
  \/ Serial(Solo) /\ FullSync(Solo)
  \/ edits < MaxEdits /\ \E p \in BlockInputs(Solo) : SaveBlock(Solo, p)
  \/ edits < MaxEdits
       /\ \E id \in BlockIds \cap ListedIds(Solo) : DeleteBlock(Solo, id)
  \/ edits < MaxEdits
       /\ \E p \in TaskInputs(Solo) : SaveTomorrowTask(Solo, p)
  \/ edits < MaxEdits
       /\ \E id \in ListedTaskIds(Solo) : DeleteTomorrowTask(Solo, id)
  \/ \E p \in SettingsInputs : SaveSettings(Solo, p)
  \/ \E k \in Slots :
       \/ now < MaxDeviceTime /\ ServerPush(Solo, k)
       \/ PushResponse(Solo, k)
       \/ now < MaxDeviceTime /\ ServerPull(Solo, k)
       \/ PullResponse(Solo, k)
       \/ now < MaxDeviceTime /\ ServerFull(Solo, k)
       \/ FullResponse(Solo, k)
       \/ failures < MaxFailures /\ Unauthorized(Solo, k)

SpecDevice == Init /\ [][NextDevice]_vars

\* The installation that holds a block another one wrote, as its connection
\* comes and goes: its syncs, their failures, and its sign-out.
Roamer == "B"

NextLine ==
  \/ Serial(Roamer) /\ Sync(Roamer)
  \/ Serial(Roamer) /\ PeriodicTick(Roamer)
  \/ Serial(Roamer) /\ HandleOnline(Roamer)
  \/ HandleOffline(Roamer)
  \/ Serial(Roamer) /\ SignOut(Roamer)
  \/ edits < MaxEdits /\ \E p \in BlockInputs(Roamer) : SaveBlock(Roamer, p)
  \/ edits < MaxEdits
       /\ \E id \in BlockIds \cap ListedIds(Roamer) : DeleteBlock(Roamer, id)
  \/ \E k \in Slots :
       \/ now < MaxTime /\ ServerPush(Roamer, k)
       \/ PushResponse(Roamer, k)
       \/ now < MaxTime /\ ServerPull(Roamer, k)
       \/ PullResponse(Roamer, k)
       \/ failures < MaxFailures /\ PushFail(Roamer, k)
       \/ failures < MaxFailures /\ PullFail(Roamer, k)

SpecLine == InitShared /\ [][NextLine]_vars

(* ------------------------ the merge on its own ------------------------ *)

\* The merge of a pull response is tried on every pair of a local list and
\* a server batch of at most MaxLen records over MergeIds: an installation
\* stands before the last step of a sync(), its pull answered.
MergeIds == {<<"b1">>, <<"b2">>}

\* The metadata a stored record can carry: markBlocksSynced and the merge
\* leave a synced record with serverVersion = version, a conflict with the
\* server's version, and a pending record was edited from either.
LocalMeta ==
  {m \in [syncStatus : {"synced", "pending", "conflict"}, version : 1..2,
          serverVersion : {Null} \cup {Some(v) : v \in 1..2},
          deletedAt : {Null, Some(0)}] :
     /\ m.syncStatus = "synced" =>
          m.serverVersion = Some(m.version) /\ m.deletedAt = Null
     /\ m.syncStatus = "conflict" => m.serverVersion # Null
     /\ m.syncStatus = "pending" => OrZero(m.serverVersion) <= m.version}

ServerMeta == [version : 1..3, deletedAt : {Null, Some(2)}]

LocalBlockOf(id, m) ==
  [id |-> id, text |-> <<"L">>, createdAt |-> 0, calendarEventId |-> Null, position |-> 0,
   version |-> m.version, updatedAt |-> 0, deletedAt |-> m.deletedAt,
   clientId |-> Solo, syncStatus |-> m.syncStatus,
   serverVersion |-> m.serverVersion,
   lastSyncedAt |-> IF m.serverVersion = Null THEN Null ELSE Some(0)]

ServerBlockOf(id, m) ==
  [id |-> id, text |-> <<"S">>, createdAt |-> 0, calendarEventId |-> Null, position |-> 0,
   version |-> m.version, updatedAt |-> 2, deletedAt |-> m.deletedAt,
   clientId |-> "B"]

LocalTaskOf(id, m) ==
  [id |-> id, text |-> <<"L">>, time |-> Null, position |-> 0,
   version |-> m.version, updatedAt |-> 0, deletedAt |-> m.deletedAt,
   clientId |-> Solo, syncStatus |-> m.syncStatus,
   serverVersion |-> m.serverVersion,
   lastSyncedAt |-> IF m.serverVersion = Null THEN Null ELSE Some(0)]

ServerTaskOf(id, m) ==
  [id |-> id, text |-> <<"S">>, time |-> Null, position |-> 0,
   version |-> m.version, updatedAt |-> 2, deletedAt |-> m.deletedAt,
   clientId |-> "B"]

\* The lists of at most MaxLen records with distinct ids, in every order.
IdLists ==
  {l \in UNION {[1..n -> MergeIds] : n \in 0..MaxLen} :
     \A i, j \in 1..Len(l) : i # j => l[i] # l[j]}

ListsOver(Meta) ==
  UNION {{[i \in 1..Len(ids) |-> [id |-> ids[i], meta |-> ms[i]]] :
            ms \in [1..Len(ids) -> Meta]} : ids \in IdLists}

LocalBlockLists ==
  {[i \in 1..Len(l) |-> LocalBlockOf(l[i].id, l[i].meta)] :
     l \in ListsOver(LocalMeta)}

ServerBlockLists ==
  {[i \in 1..Len(l) |-> ServerBlockOf(l[i].id, l[i].meta)] :
     l \in ListsOver(ServerMeta)}

LocalTaskLists ==
  {[i \in 1..Len(l) |-> LocalTaskOf(l[i].id, l[i].meta)] :
     l \in ListsOver(LocalMeta)}

ServerTaskLists ==
  {[i \in 1..Len(l) |-> ServerTaskOf(l[i].id, l[i].meta)] :
     l \in ListsOver(ServerMeta)}

\* The pull was answered at time 3.
MergeInputs(lb, sb, lt, st) ==
    /\ now = 3
    /\ srvBlocks = [i \in 1..Len(sb) |->
         [id |-> sb[i].id, userId |-> UserOf(Solo), text |-> sb[i].text,
          createdAt |-> sb[i].createdAt,
          calendarEventId |-> sb[i].calendarEventId,
          position |-> sb[i].position,
          version |-> sb[i].version, updatedAt |-> sb[i].updatedAt,
          deletedAt |-> sb[i].deletedAt, clientId |-> sb[i].clientId]]
    /\ authToken = [c \in Clients |-> Some(UserOf(c))]
    /\ blocks = [c \in Clients |-> IF c = Solo THEN lb ELSE <<>>]
    /\ tomorrowTasks = [c \in Clients |-> IF c = Solo THEN lt ELSE <<>>]
    /\ settings = [c \in Clients |-> Null]
    /\ srvTasks = [i \in 1..Len(st) |->
         [id |-> st[i].id, userId |-> UserOf(Solo), text |-> st[i].text,
          time |-> st[i].time, position |-> st[i].position,
          version |-> st[i].version, updatedAt |-> st[i].updatedAt,
          deletedAt |-> st[i].deletedAt, clientId |-> st[i].clientId]]
    /\ srvSettings = [u \in Users |-> Null]
    /\ syncState = [c \in Clients |-> [lastSyncedAt |-> Some(1)]]
    /\ status = [c \in Clients |-> IF c = Solo THEN "syncing" ELSE "idle"]
    /\ isOnline = [c \in Clients |-> TRUE]
    /\ syncInterval = [c \in Clients |-> TRUE]
    /\ syncDebounceTimer = [c \in Clients |-> <<>>]
    /\ runs = [c \in Clients |-> [k \in Slots |->
         IF c = Solo /\ k = 1
         THEN [IdleRun EXCEPT
                 !.pc = "pulled", !.since = Some(1),
                 !.pullResp = Some([blocks |-> sb, tomorrowTasks |-> st,
                                    settings |-> Null, syncedAt |-> 3])]
         ELSE IdleRun]]
    /\ emitted = <<>>
    /\ edits = 0
    /\ failures = 0
    /\ tombstoned = [c \in Clients |-> NoTombstones]

InitMerge ==
  \/ \E lb \in LocalBlockLists, sb \in ServerBlockLists :
       MergeInputs(lb, sb, <<>>, <<>>)
  \/ \E lt \in LocalTaskLists, st \in ServerTaskLists :
       MergeInputs(<<>>, <<>>, lt, st)

\* One merge: a batch of blocks, or a batch of tasks.
NextMerge == PullResponse(Solo, 1)

SpecMerge == InitMerge /\ [][NextMerge]_vars

(* ---------------------- the reads on their own ----------------------- *)

\* The read requests are tried on every table of at most MaxRows rows over
\* ReadIds: rows of the user and of another user, live and tombstones,
\* written at the cursor's time and after it.  An installation stands before
\* a pull without a cursor, a pull with the cursor 2, or a full sync.
ReadIds == {<<"b1">>, <<"b2">>, <<"b3">>}

ReadMeta == [userId : Users, updatedAt : 2..3, deleted : BOOLEAN]

ReadIdLists ==
  {l \in UNION {[1..n -> ReadIds] : n \in 0..MaxRows} :
     \A i, j \in 1..Len(l) : i # j => l[i] # l[j]}

ReadLists ==
  UNION {{[i \in 1..Len(ids) |-> [id |-> ids[i], meta |-> ms[i]]] :
            ms \in [1..Len(ids) -> ReadMeta]} : ids \in ReadIdLists}

BlockRowOf(id, m) ==
  [id |-> id, userId |-> m.userId, text |-> <<"S">>, createdAt |-> 0, calendarEventId |-> Null,
   position |-> 0, version |-> 1, updatedAt |-> m.updatedAt,
   deletedAt |-> IF m.deleted THEN Some(m.updatedAt) ELSE Null,
   clientId |-> "B"]

TaskRowOf(id, m) ==
  [id |-> id, userId |-> m.userId, text |-> <<"S">>, time |-> Null,
   position |-> 0, version |-> 1, updatedAt |-> m.updatedAt,
   deletedAt |-> IF m.deleted THEN Some(m.updatedAt) ELSE Null,
   clientId |-> "B"]

ReadInputs(sb, st, request) ==
    /\ now = 3
    /\ srvBlocks = [i \in 1..Len(sb) |-> BlockRowOf(sb[i].id, sb[i].meta)]
    /\ srvTasks = [i \in 1..Len(st) |-> TaskRowOf(st[i].id, st[i].meta)]
    /\ srvSettings = [u \in Users |-> Null]
    /\ authToken = [c \in Clients |-> Some(UserOf(c))]
    /\ blocks = [c \in Clients |-> <<>>]
    /\ tomorrowTasks = [c \in Clients |-> <<>>]
    /\ settings = [c \in Clients |-> Null]
    /\ syncState = [c \in Clients |-> [lastSyncedAt |-> request.since]]
    /\ status = [c \in Clients |-> IF c = Solo THEN "syncing" ELSE "idle"]
    /\ isOnline = [c \in Clients |-> TRUE]
    /\ syncInterval = [c \in Clients |-> TRUE]
    /\ syncDebounceTimer = [c \in Clients |-> <<>>]
    /\ runs = [c \in Clients |-> [k \in Slots |->
         IF c = Solo /\ k = 1
         THEN [IdleRun EXCEPT !.pc = request.pc, !.via = request.via,
                              !.since = request.since]
         ELSE IdleRun]]
    /\ emitted = <<>>
    /\ edits = 0
    /\ failures = 0
    /\ tombstoned = [c \in Clients |-> NoTombstones]

ReadRequests ==
  {[pc |-> "pulling", via |-> "sync", since |-> Null],
   [pc |-> "pulling", via |-> "sync", since |-> Some(2)],
   [pc |-> "fulling", via |-> "full", since |-> Null]}

InitReads ==
  \E request \in ReadRequests :
    \/ \E sb \in ReadLists : ReadInputs(sb, <<>>, request)
    \/ \E st \in ReadLists : ReadInputs(<<>>, st, request)

\* One request answered: a pull, or a full sync.
NextReads == ServerPull(Solo, 1) \/ ServerFull(Solo, 1)

SpecReads == InitReads /\ [][NextReads]_vars

(* ------------------------ saveBlock on its own ------------------------ *)

\* saveBlock is tried on every stored list of at most MaxLen records over
\* MergeIds, with every partial: an id the list holds or not, and createdAt,
\* calendarEventId and position supplied or absent.
SaveInputs ==
  [id : MergeIds, text : {<<"N">>}, createdAt : {Null, Some(5)},
   calendarEventId : {Null, Some(<<"e2">>)},
   position : {Null, Some(0), Some(3)}]

\* A stored record: one the merge stored came from another installation and
\* carries a calendar event.
StoredBlock(l) ==
  [l EXCEPT !.createdAt = 1, !.position = 2,
            !.calendarEventId = IF l.serverVersion # Null
                                THEN Some(<<"e1">>) ELSE Null,
            !.clientId = IF l.serverVersion # Null THEN "B" ELSE Solo]

StoredLists ==
  {[i \in 1..Len(l) |-> StoredBlock(l[i])] : l \in LocalBlockLists}

\* The server's row of a record that has been synced.
RowOfStored(l) ==
  [id |-> l.id, userId |-> UserOf(Solo), text |-> <<"S">>,
   createdAt |-> l.createdAt, calendarEventId |-> l.calendarEventId,
   position |-> l.position, version |-> l.serverVersion[1], updatedAt |-> 2,
   deletedAt |-> Null, clientId |-> "B"]

InitSave ==
  /\ AtRest
  /\ now = 3
  /\ \E lb \in StoredLists :
       LET known == SelectSeq(lb, LAMBDA l : l.serverVersion # Null)
       IN  /\ blocks = [c \in Clients |-> IF c = Solo THEN lb ELSE <<>>]
           /\ srvBlocks = [i \in 1..Len(known) |-> RowOfStored(known[i])]
  /\ syncState = [c \in Clients |-> [lastSyncedAt |-> Some(3)]]

NextSave == edits < MaxSaves /\ \E p \in SaveInputs : SaveBlock(Solo, p)

SpecSave == InitSave /\ [][NextSave]_vars

(* --------------------- the requests on their own ---------------------- *)

\* The three requests are tried on every table of at most MaxRows rows over
\* ReadIds, of the user and of another user: a pull, a full sync, and a push
\* of at most MaxPushed pending records over the same ids, at a version the
\* server's row has and at one above it.
PushedMeta == [version : 1..2]

PushedIdLists ==
  {l \in UNION {[1..n -> ReadIds] : n \in 1..MaxPushed} :
     \A i, j \in 1..Len(l) : i # j => l[i] # l[j]}

PushedLists ==
  UNION {{[i \in 1..Len(ids) |-> [id |-> ids[i], meta |-> ms[i]]] :
            ms \in [1..Len(ids) -> PushedMeta]} : ids \in PushedIdLists}

PendingMeta(m) ==
  [syncStatus |-> "pending", version |-> m.version, serverVersion |-> Null,
   deletedAt |-> Null]

\* The tables the pushes meet: the time of a row's last write plays no part
\* in a push.
PushTables == {l \in ReadLists : \A i \in 1..Len(l) : l[i].meta.updatedAt = 2}

PushInputs(sb, pushed) ==
    /\ now = 3
    /\ srvBlocks = [i \in 1..Len(sb) |-> BlockRowOf(sb[i].id, sb[i].meta)]
    /\ srvTasks = [i \in 1..Len(sb) |-> TaskRowOf(sb[i].id, sb[i].meta)]
    /\ srvSettings = [u \in Users |-> Null]
    /\ authToken = [c \in Clients |-> Some(UserOf(c))]
    /\ blocks = [c \in Clients |->
         IF c = Solo
         THEN [i \in 1..Len(pushed) |->
                 LocalBlockOf(pushed[i].id, PendingMeta(pushed[i].meta))]
         ELSE <<>>]
    /\ tomorrowTasks = [c \in Clients |->
         IF c = Solo
         THEN [i \in 1..Len(pushed) |->
                 LocalTaskOf(pushed[i].id, PendingMeta(pushed[i].meta))]
         ELSE <<>>]
    /\ settings = [c \in Clients |-> Null]
    /\ syncState = [c \in Clients |-> [lastSyncedAt |-> Some(2)]]
    /\ status = [c \in Clients |-> IF c = Solo THEN "syncing" ELSE "idle"]
    /\ isOnline = [c \in Clients |-> TRUE]
    /\ syncInterval = [c \in Clients |-> TRUE]
    /\ syncDebounceTimer = [c \in Clients |-> <<>>]
    /\ runs = [c \in Clients |-> [k \in Slots |->
         IF c = Solo /\ k = 1
         THEN [IdleRun EXCEPT
                 !.pc = "pushing",
                 !.pushed = getPendingBlocks(blocks[Solo]),
                 !.pushedTasks = getPendingTomorrowTasks(tomorrowTasks[Solo])]
         ELSE IdleRun]]
    /\ emitted = <<>>
    /\ edits = 0
    /\ failures = 0
    /\ tombstoned = [c \in Clients |-> NoTombstones]

InitRequests ==
  \/ \E sb \in ReadLists, request \in ReadRequests :
       ReadInputs(sb, sb, request)
  \/ \E sb \in PushTables, pushed \in PushedLists : PushInputs(sb, pushed)

\* One request answered.
NextRequests ==
  ServerPush(Solo, 1) \/ ServerPull(Solo, 1) \/ ServerFull(Solo, 1)

SpecRequests == InitRequests /\ [][NextRequests]_vars

(* ------------------------- signOut on its own ------------------------- *)

\* signOut is tried on an installation at rest in every state of its store:
\* any list of at most MaxLen blocks over MergeIds, a pending task or none,
\* settings or none, a cursor or none, after a sync that ended well or in
\* error, or offline.
SignOutStatuses == {"idle", "error", "offline"}

InitSignOut ==
  /\ now = 3
  /\ srvTasks = <<>>
  /\ srvSettings = [u \in Users |-> Null]
  /\ authToken = [c \in Clients |-> Some(UserOf(c))]
  /\ syncInterval = [c \in Clients |-> TRUE]
  /\ syncDebounceTimer = [c \in Clients |-> <<>>]
  /\ runs = [c \in Clients |-> [k \in Slots |-> IdleRun]]
  /\ emitted = <<>>
  /\ edits = 0
  /\ failures = 0
  /\ tombstoned = [c \in Clients |-> NoTombstones]
  /\ \E lb \in StoredLists :
       LET known == SelectSeq(lb, LAMBDA l : l.serverVersion # Null)
       IN  /\ blocks = [c \in Clients |-> IF c = Solo THEN lb ELSE <<>>]
           /\ srvBlocks = [i \in 1..Len(known) |-> RowOfStored(known[i])]
  /\ \E lt \in {<<>>, <<LocalTaskOf(<<"t1">>, PendingMeta([version |-> 1]))>>} :
       tomorrowTasks = [c \in Clients |-> IF c = Solo THEN lt ELSE <<>>]
  /\ \E st \in {Null, Some(SavedSettings(Null, [theme |-> Some("dark"),
                                                dayCutHour |-> Null], 0))} :
       settings = [c \in Clients |-> IF c = Solo THEN st ELSE Null]
  /\ \E at \in {Null, Some(3)} :
       syncState = [c \in Clients |-> [lastSyncedAt |-> at]]
  /\ \E st \in SignOutStatuses :
       /\ status = [c \in Clients |-> IF c = Solo THEN st ELSE "idle"]
       /\ isOnline = [c \in Clients |-> c # Solo \/ st # "offline"]

NextSignOut == SignOut(Solo)

SpecSignOut == InitSignOut /\ [][NextSignOut]_vars

(* ------------------------- the server's push -------------------------- *)

\* The step in which the server handles the push of run k of client c.
PushStep(c, k) == runs[c][k].pc = "pushing" /\ runs'[c][k].pc = "pushed"

RowOf(table, id) == table[FindIndex(table, id)]

ConflictIds(resp) == {resp.conflicts[i].id : i \in 1..Len(resp.conflicts)}

\* The pushed records of run k of client c whose id the user already has on
\* the server.
PushedExisting(c, k) ==
  {p \in Range(runs[c][k].pushed) :
     HasId(srvBlocks, p.id) /\ RowOf(srvBlocks, p.id).userId = UserOf(c)}

\* A run holds the answer to its push.
Answered(c, k) == runs[c][k].pc = "pushed"

C2_KeepBoth ==
  [][\A c \in Clients, k \in Slots :
       PushStep(c, k) =>
         \A p \in PushedExisting(c, k) :
           LET i == FindIndex(srvBlocks, p.id)
               e == srvBlocks[i]
               resp == runs'[c][k].pushResp[1]
           IN  (e.version >= p.version /\ e.clientId # c) =>
                 /\ srvBlocks'[i] = e
                 /\ \E j \in (Len(srvBlocks) + 1)..Len(srvBlocks') :
                      /\ IsConflictIdOf(srvBlocks'[j].id, p.id)
                      /\ srvBlocks'[j].version = 1
                      /\ srvBlocks'[j].text = ConflictPrefix \o p.text
                 /\ p.id \in ConflictIds(resp)
                 /\ p.id \notin Range(resp.applied)]_vars

\* A push was answered with a conflict and the table holds its duplicate
\* next to the row it left alone.
C2_Witness ==
  \E c \in Clients, k \in Slots :
    /\ Answered(c, k)
    /\ \E id \in ConflictIds(runs[c][k].pushResp[1]) :
         /\ HasId(srvBlocks, id)
         /\ RowOf(srvBlocks, id).clientId # c
         /\ \E j \in 1..Len(srvBlocks) :
              /\ IsConflictIdOf(srvBlocks[j].id, id)
              /\ srvBlocks[j].clientId = c

\* C3: a pushed record whose id exists with a smaller stored version, or
\* with the pushing client's clientId, is accepted: applied lists the id and
\* the stored version becomes the incoming version plus one.
C3_AcceptVersion ==
  [][\A c \in Clients, k \in Slots :
       PushStep(c, k) =>
         \A p \in PushedExisting(c, k) :
           LET i == FindIndex(srvBlocks, p.id)
               e == srvBlocks[i]
               resp == runs'[c][k].pushResp[1]
           IN  (p.version > e.version \/ e.clientId = c) =>
                 /\ p.id \in Range(resp.applied)
                 /\ srvBlocks'[i].id = p.id
                 /\ srvBlocks'[i].version = p.version + 1]_vars

\* A push over an existing row was answered as applied: the row carries the
\* pushed version plus one.
C3_Witness ==
  \E c \in Clients, k \in Slots :
    /\ Answered(c, k)
    /\ \E p \in Range(runs[c][k].pushed) :
         /\ p.id \in Range(runs[c][k].pushResp[1].applied)
         /\ HasId(srvBlocks, p.id)
         /\ RowOf(srvBlocks, p.id).version = p.version + 1
         /\ RowOf(srvBlocks, p.id).version >= 2

(* ------------------------ two installations -------------------------- *)

\* C4: when a client pushes a record whose stored row another client wrote
\* and whose stored version the pushing client has not merged (its
\* serverVersion is older), the stored text is not replaced and the push is
\* answered as a conflict.
C4_NoSilentOverwrite ==
  [][\A c \in Clients, k \in Slots :
       PushStep(c, k) =>
         \A p \in PushedExisting(c, k) :
           LET i == FindIndex(srvBlocks, p.id)
               e == srvBlocks[i]
               resp == runs'[c][k].pushResp[1]
           IN  (e.clientId # c /\ OrZero(p.serverVersion) < e.version) =>
                 /\ srvBlocks'[i].text = e.text
                 /\ p.id \in ConflictIds(resp)]_vars

\* C7: a record with syncStatus conflict keeps its text in the store over
\* every step that is not an edit of the user.
C7_ConflictKeepsText ==
  [][\A c \in Clients :
       \A i \in 1..Len(blocks[c]) :
         (blocks[c][i].syncStatus = "conflict" /\ edits' = edits) =>
           \E j \in 1..Len(blocks'[c]) :
             /\ blocks'[c][j].id = blocks[c][i].id
             /\ blocks'[c][j].text = blocks[c][i].text]_vars

\* The step in which run k of client c ends without an error.
SyncDone(c, k) ==
  /\ runs[c][k].pc = "pulled"
  /\ runs'[c][k].pc = "idle"
  /\ status'[c] = "idle"

\* C10: a sync() of an installation that was called after another one had
\* deleted a block and synced without an error, and that finds its own record
\* of the block synced and live, ends with that record tombstoned and absent
\* from getBlocks().
C10_TombstoneReaches ==
  [][\A c \in Clients, k \in Slots :
       SyncDone(c, k) =>
         \A id \in runs[c][k].after :
           LET i == FindIndex(blocks[c], id)
               j == FindIndex(blocks'[c], id)
           IN  (/\ i > 0
                /\ blocks[c][i].syncStatus = "synced"
                /\ blocks[c][i].deletedAt = Null) =>
                 /\ j > 0
                 /\ blocks'[c][j].deletedAt # Null
                 /\ \A b \in Range(getBlocks(blocks'[c])) : b.id # id]_vars

(* ------------------------- one installation --------------------------- *)

\* C5: an engine has at most one sync() call in flight.
C5_OneRunInFlight == \A c \in Clients : Cardinality(InFlight(c)) <= 1

\* The step in which the push of run k of client c fails.
PushFailStep(c, k) ==
  /\ runs[c][k].pc \in {"pushing", "pushed"}
  /\ runs'[c][k].pc = "idle"

\* C6: when the push of a run fails, the status becomes error, an error
\* event is emitted, and every pending record of the store, the records the
\* run had taken for its push among them, is in the store as it was: pending,
\* with its text, version and deletedAt.
C6_FailedPushKeepsPending ==
  [][\A c \in Clients, k \in Slots :
       PushFailStep(c, k) =>
         /\ status'[c] = "error"
         /\ Event(c, "error", "push") \in Range(emitted')
         /\ \A b \in Range(blocks[c]) :
              (b.syncStatus = "pending" \/ b \in Range(runs[c][k].pushed)) =>
                \E a \in Range(blocks'[c]) :
                  /\ a.id = b.id
                  /\ a.syncStatus = b.syncStatus
                  /\ a.text = b.text
                  /\ a.version = b.version
                  /\ a.deletedAt = b.deletedAt]_vars

\* A push has failed and the store holds a pending record.
C6_Witness ==
  \E c \in Clients :
    /\ status[c] = "error"
    /\ Event(c, "error", "push") \in Range(emitted)
    /\ getPendingBlocks(blocks[c]) # <<>>

\* C9: a run that pulls has the answer to its push, and the answer to its
\* pull holds every record its push was answered to have applied.
C9_PullHoldsPushed ==
  \A c \in Clients, k \in Slots :
    LET r == runs[c][k]
    IN  /\ (r.pc \in {"pulling", "pulled"} /\ r.pushed # <<>>) =>
             r.pushResp # Null
        /\ (r.pc = "pulled" /\ r.pushResp # Null) =>
             \A id \in Range(r.pushResp[1].applied) :
               HasId(r.pullResp[1].blocks, id)

(* ----------------------------- the merge ------------------------------- *)

\* The wire fields of a stored record are those of the server record s.
SameWire(l, s) ==
  \A f \in DOMAIN s : l[f] = s[f]

\* The rule of the merge for the local list L, the batch P and the merged
\* list M.
MergeRule(L, P, M) ==
  \A n \in 1..Len(P) :
    LET s == P[n]
        i == FindIndex(L, s.id)
        j == FindIndex(M, s.id)
    IN  /\ j > 0
        /\ i = 0 =>
             /\ SameWire(M[j], s)
             /\ M[j].syncStatus = "synced"
             /\ M[j].serverVersion = Some(s.version)
        /\ (i > 0 /\ L[i].syncStatus = "pending"
                  /\ s.version > OrZero(L[i].serverVersion)) =>
             M[j] = [L[i] EXCEPT !.syncStatus = "conflict",
                                 !.serverVersion = Some(s.version)]
        /\ (i > 0 /\ L[i].syncStatus = "pending"
                  /\ s.version <= OrZero(L[i].serverVersion)) =>
             M[j] = L[i]
        /\ (i > 0 /\ L[i].syncStatus = "synced") =>
             /\ SameWire(M[j], s)
             /\ M[j].syncStatus = "synced"
             /\ M[j].serverVersion = Some(s.version)

\* C8: the merge of a pull response follows the rule, for the blocks and for
\* the tasks: a record new to the store is inserted as synced, a pending
\* record becomes a conflict when the server's version is above its
\* serverVersion and is left as it is otherwise, and a synced record is
\* replaced by the server's.
C8_MergeRule ==
  [][\A c \in Clients, k \in Slots :
       SyncDone(c, k) =>
         LET resp == runs[c][k].pullResp[1]
         IN  /\ MergeRule(blocks[c], resp.blocks, blocks'[c])
             /\ MergeRule(tomorrowTasks[c], resp.tomorrowTasks,
                          tomorrowTasks'[c])]_vars

\* A merge has made a conflict of a pending block and has taken the server's
\* copy of another, and a merge has done the same to the tasks.
C8_Witness ==
  /\ runs[Solo][1].pc = "idle"
  /\ syncState[Solo].lastSyncedAt = Some(3)
  /\ \E list \in {blocks[Solo], tomorrowTasks[Solo]} :
       /\ \E l \in Range(list) :
            /\ l.syncStatus = "conflict"
            /\ l.serverVersion = Some(3)
            /\ l.text = <<"L">>
       /\ \E l \in Range(list) :
            /\ l.syncStatus = "synced"
            /\ l.text = <<"S">>

(* ----------------------------- round trip ----------------------------- *)

\* The step in which run k of client c merges the answer to its pull.
PullStep(c, k) == runs[c][k].pc = "pulled" /\ runs'[c][k].pc = "idle"

FreshWriteDone(c, k) ==
  /\ PullStep(c, k)
  /\ edits = 1
  /\ failures = 0
  /\ Len(runs[c][k].pushed) = 1

\* What a fresh write leaves when the server stores it as version v.
FreshWriteLeaves(c, k, v) ==
  LET p == runs[c][k].pushed[1]
  IN  /\ Len(srvBlocks') = 1
      /\ srvBlocks'[1].id = p.id
      /\ srvBlocks'[1].text = p.text
      /\ srvBlocks'[1].version = v
      /\ srvBlocks'[1].clientId = c
      /\ Len(blocks'[c]) = 1
      /\ blocks'[c][1].id = p.id
      /\ blocks'[c][1].syncStatus = "synced"
      /\ blocks'[c][1].serverVersion = Some(v)

FullIssued(c, k) ==
  /\ runs[c][k].pc # "fulling"
  /\ runs'[c][k].pc = "fulling"
  /\ runs'[c][k].via = "signIn"

\* The step in which signIn finishes with its full sync answered.
SignInDone(c, k) ==
  /\ runs[c][k].pc = "fulled"
  /\ runs[c][k].via = "signIn"
  /\ runs'[c][k].pc = "idle"
  /\ failures' = failures

\* The blocks signIn pushed that were live, i.e. saved and not deleted.
SavedOffline(c, k) ==
  {b \in Range(runs[c][k].pushed) : b.deletedAt = Null}

\* The push of signIn is answered before its full sync is requested.
PushBeforeFull(c, k) ==
  FullIssued(c, k) =>
    \/ runs[c][k].pc = "pushed" /\ runs[c][k].pushResp # Null
    \/ /\ runs[c][k].pc = "idle"
       /\ getPendingBlocks(blocks[c]) = <<>>
       /\ getPendingTomorrowTasks(tomorrowTasks[c]) = <<>>

\* After signIn the store holds a live, synced block under the id of b.
HeldSynced(c, b) ==
  \E l \in Range(blocks'[c]) :
    /\ l.id = b.id
    /\ l.deletedAt = Null
    /\ l.syncStatus = "synced"

\* After signIn the store holds block b, synced and with the text saved.
KeptSynced(c, b) ==
  \E l \in Range(blocks'[c]) :
    /\ l.id = b.id
    /\ l.text = b.text
    /\ l.deletedAt = Null
    /\ l.syncStatus = "synced"

\* After signIn the store holds every record the full sync answered with.
HoldsServerRecords(c, k) ==
  \A s \in Range(runs[c][k].pullResp[1].blocks) :
    \E l \in Range(blocks'[c]) :
      l.id = s.id /\ l.text = s.text /\ l.syncStatus = "synced"

C14_SettingsReachServer ==
  [][\A k \in Slots :
       (SyncDone(Solo, k) /\ runs[Solo][k].saved # Null) =>
         /\ srvSettings'[UserOf(Solo)] # Null
         /\ srvSettings'[UserOf(Solo)][1].theme
              = runs[Solo][k].saved[1].theme
         /\ srvSettings'[UserOf(Solo)][1].dayCutHour
              = runs[Solo][k].saved[1].dayCutHour]_vars

(* ------------------------------ 401 ----------------------------------- *)

\* The request of run k is answered with 401 in this step.
Answered401(c, k) ==
  /\ runs[c][k].pc \in {"pushing", "pulling", "fulling"}
  /\ runs'[c][k].pc = "idle"
  /\ Event(c, "error", "401") \in Range(emitted')

\* C15: when a sync request (push, pull or full) is answered with 401, the
\* client clears its stored token: isLoggedIn() is false afterwards.
C15_UnauthorizedSignsOut ==
  [][\A k \in Slots :
       Answered401(Solo, k) => authToken'[Solo] = Null]_vars

(* ------------------------------ reads --------------------------------- *)

PullAnswered(c, k) == runs[c][k].pc = "pulling" /\ runs'[c][k].pc = "pulled"

FullAnswered(c, k) == runs[c][k].pc = "fulling" /\ runs'[c][k].pc = "fulled"

\* The rows of a table a pull with the cursor since is due to return.
DueRows(table, userId, since) ==
  {r \in Range(table) :
     /\ r.userId = userId
     /\ since # Null => r.updatedAt > since[1]}

\* The user's rows of a table that are not tombstones.
LiveRows(table, userId) ==
  {r \in Range(table) : r.userId = userId /\ r.deletedAt = Null}

\* The list holds the rows, each once and as stored, and nothing else.
ExactlyRows(list, rows) ==
  /\ Len(list) = Cardinality(rows)
  /\ \A r \in rows :
       \E i \in 1..Len(list) :
         /\ list[i].id = r.id
         /\ list[i].text = r.text
         /\ list[i].version = r.version
         /\ list[i].updatedAt = r.updatedAt
         /\ list[i].deletedAt = r.deletedAt

\* C16: GET /sync/pull with since = T returns exactly the user's blocks and
\* tasks whose updatedAt is greater than T, tombstones included; without
\* since it returns all of the user's blocks and tasks.
C16_PullReturnsChanged ==
  [][\A c \in Clients, k \in Slots :
       PullAnswered(c, k) =>
         /\ ExactlyRows(runs'[c][k].pullResp[1].blocks,
                        DueRows(srvBlocks, UserOf(c), runs[c][k].since))
         /\ ExactlyRows(runs'[c][k].pullResp[1].tomorrowTasks,
                        DueRows(srvTasks, UserOf(c), runs[c][k].since))]_vars

\* A pull with the cursor 2 was answered with a tombstone of the user, while
\* the table also holds a row of the user written at 2 and a row of another
\* user written at 3.
C16_Witness ==
  /\ runs[Solo][1].pc = "pulled"
  /\ runs[Solo][1].since = Some(2)
  /\ \E b \in Range(runs[Solo][1].pullResp[1].blocks) : b.deletedAt # Null
  /\ \E r \in Range(srvBlocks) : r.userId = UserOf(Solo) /\ r.updatedAt = 2
  /\ \E r \in Range(srvBlocks) : r.userId # UserOf(Solo) /\ r.updatedAt = 3

\* C17: GET /sync/full returns exactly the user's records that are not
\* deleted, and never a tombstone.
C17_FullReturnsLive ==
  [][\A c \in Clients, k \in Slots :
       FullAnswered(c, k) =>
         /\ ExactlyRows(runs'[c][k].pullResp[1].blocks,
                        LiveRows(srvBlocks, UserOf(c)))
         /\ ExactlyRows(runs'[c][k].pullResp[1].tomorrowTasks,
                        LiveRows(srvTasks, UserOf(c)))
         /\ \A b \in Range(runs'[c][k].pullResp[1].blocks) :
              b.deletedAt = Null
         /\ \A t \in Range(runs'[c][k].pullResp[1].tomorrowTasks) :
              t.deletedAt = Null]_vars

\* A full sync was answered with a live task of the user, while the table
\* also holds a tombstone of the user and a live task of another user.
C17_Witness ==
  /\ runs[Solo][1].pc = "fulled"
  /\ Len(runs[Solo][1].pullResp[1].tomorrowTasks) = 1
  /\ \E r \in Range(srvTasks) : r.userId = UserOf(Solo) /\ r.deletedAt # Null
  /\ \E r \in Range(srvTasks) : r.userId # UserOf(Solo) /\ r.deletedAt = Null

(* -------------------------- server versions --------------------------- *)

\* No row of the table has a lower version after the step than before it.
VersionsKept(table, tableAfter) ==
  \A r \in Range(table) :
    \A q \in Range(tableAfter) :
      (q.id = r.id /\ q.userId = r.userId) => q.version >= r.version

\* C18: the version the server stores for a record never decreases, whatever
\* pushes arrive from whatever clients, a push from the row's own clientId
\* carrying a lower version included.
C18_ServerVersionMonotone ==
  [][VersionsKept(srvBlocks, srvBlocks')
       /\ VersionsKept(srvTasks, srvTasks')]_vars

(* ----------------------------- tombstones ----------------------------- *)

\* Every tombstone of the list is a tombstone after the step, where the
\* list still has the record.
TombstonesKept(list, listAfter) ==
  \A r \in Range(list) :
    r.deletedAt # Null =>
      \A q \in Range(listAfter) : q.id = r.id => q.deletedAt # Null

\* The live records that run k of client c pushes in this step and whose id
\* is a tombstone of the user on the server.
PushedOverTombstone(c, k) ==
  {b \in Range(runs[c][k].pushed) :
     /\ b.deletedAt = Null
     /\ \E r \in Range(srvBlocks) :
          r.id = b.id /\ r.userId = UserOf(c) /\ r.deletedAt # Null}

\* C19: tombstones are permanent: no step (a save of the same id, a push, a
\* merge) sets deletedAt of a record back to null, in a client store or on
\* the server, and the push of a live record whose id is a tombstone on the
\* server is not applied.
C19_TombstonesPermanent ==
  [][/\ \A c \in Clients :
          /\ TombstonesKept(blocks[c], blocks'[c])
          /\ TombstonesKept(tomorrowTasks[c], tomorrowTasks'[c])
     /\ TombstonesKept(srvBlocks, srvBlocks')
     /\ TombstonesKept(srvTasks, srvTasks')
     /\ \A c \in Clients, k \in Slots :
          PushStep(c, k) =>
            \A b \in PushedOverTombstone(c, k) :
              b.id \notin Range(runs'[c][k].pushResp[1].applied)]_vars

(* --------------------------- local versions --------------------------- *)

\* Every record the step has written has a version above the one the list
\* held under its id.
VersionRaised(list, listAfter) ==
  \A q \in Range(listAfter) :
    q \notin Range(list) =>
      /\ q.version > 0
      /\ \A r \in Range(list) : r.id = q.id => q.version > r.version

\* C20: every local mutation of a block or a task (saveBlock, deleteBlock,
\* saveTomorrowTask, deleteTomorrowTask) strictly increases the local version
\* of the record it writes.
C20_MutationRaisesVersion ==
  [][edits' = edits + 1 =>
       \A c \in Clients :
         /\ VersionRaised(blocks[c], blocks'[c])
         /\ VersionRaised(tomorrowTasks[c], tomorrowTasks'[c])]_vars

(* --------------------------- upload lifecycle ------------------------- *)

\* pushPendingChanges handles the push response of run k in this step.
PushHandled(c, k) == runs[c][k].pc = "pushed" /\ runs'[c][k].pc # "pushed"
                       /\ failures' = failures

\* The ids of the pushed blocks the response lists as applied, and as
\* conflicts.
AppliedIds(c, k) ==
  {b.id : b \in Range(runs[c][k].pushed)}
    \cap Range(runs[c][k].pushResp[1].applied)

RejectedIds(c, k) ==
  {b.id : b \in Range(runs[c][k].pushed)}
    \cap ConflictIds(runs[c][k].pushResp[1])

\* C21: after a push response is handled, every pushed record the response
\* lists in applied is synced in the store with serverVersion equal to its
\* version, and every pushed record it lists in conflicts has the status
\* conflict.
C21_UploadLifecycle ==
  [][\A c \in Clients, k \in Slots :
       PushHandled(c, k) =>
         \A l \in Range(blocks'[c]) :
           /\ l.id \in AppliedIds(c, k) =>
                l.syncStatus = "synced" /\ l.serverVersion = Some(l.version)
           /\ l.id \in RejectedIds(c, k) =>
                l.syncStatus = "conflict"]_vars

\* The half of it about the applied records.
AppliedAreSynced ==
  [][\A c \in Clients, k \in Slots :
       PushHandled(c, k) =>
         \A l \in Range(blocks'[c]) :
           l.id \in AppliedIds(c, k) =>
             l.syncStatus = "synced" /\ l.serverVersion = Some(l.version)]_vars

(* ----------------------------- event order ---------------------------- *)

\* The events of the last step that went to the subscribers of c's engine,
\* and the status changes among them.
EventsOf(c, events) == SelectSeq(events, LAMBDA e : e.c = c)

StatusChanges(c, events) ==
  SelectSeq(events, LAMBDA e : e.c = c /\ e.type = "status-change")

DataEventTypes ==
  {"blocks-updated", "tomorrow-tasks-updated", "settings-updated",
   "conflict-detected"}

\* A sync() run of c starts in this step, with a request to the server.
RunStarts(c, k) ==
  /\ runs[c][k].pc = "idle"
  /\ runs'[c][k].pc \in {"pushing", "pulling"}
  /\ runs'[c][k].via = "sync"

\* A status change to s is the last status change of the step.
LastStatusChange(c, events, s) ==
  LET changes == StatusChanges(c, events)
  IN  changes # <<>> /\ changes[Len(changes)].data = s

\* The run k of c ends in this step, its pull merged.
RunSucceeds(c, k) ==
  /\ runs[c][k].pc = "pulled"
  /\ runs[c][k].via = "sync"
  /\ runs'[c][k].pc = "idle"
  /\ failures' = failures

\* C22: of a sync() run that contacts the server the subscribers see
\* status-change(syncing) first, then the run's data events, then
\* status-change(idle): the step that starts the run leaves
\* status-change(syncing) as the last status change, a step between emits no
\* status change, and the step that ends the run emits data events and then
\* status-change(idle) as its last event.
C22_EventOrder ==
  [][\A c \in Clients, k \in Slots :
       /\ RunStarts(c, k) => LastStatusChange(c, emitted', "syncing")
       /\ (runs[c][k].pc # "idle" /\ runs'[c][k].pc # "idle"
             /\ runs[c][k].via = "sync" /\ isOnline' = isOnline)
            => StatusChanges(c, emitted') = <<>>
       /\ RunSucceeds(c, k) =>
            LET seen == EventsOf(c, emitted')
            IN  /\ seen # <<>>
                /\ seen[Len(seen)] = Event(c, "status-change", "idle")
                /\ \A i \in 1..(Len(seen) - 1) :
                     seen[i].type \in DataEventTypes]_vars

\* The same, of the runs an editor's call, a timer or the ticker starts.
EventOrderOfCalls ==
  [][\A c \in Clients, k \in Slots :
       (isOnline[c] /\ isOnline' = isOnline) =>
         /\ RunStarts(c, k) => LastStatusChange(c, emitted', "syncing")
         /\ (runs[c][k].pc # "idle" /\ runs'[c][k].pc # "idle"
               /\ runs[c][k].via = "sync")
              => StatusChanges(c, emitted') = <<>>]_vars

(* ------------------------- a run that fails --------------------------- *)

\* The run k of c ends in the catch of sync(), with the status error.
RunFails(c, k) ==
  /\ runs[c][k].pc # "idle"
  /\ runs[c][k].via = "sync"
  /\ runs'[c][k].pc = "idle"
  /\ failures' = failures + 1
  /\ status'[c] = "error"

\* The run has handled a push response that lists conflicts.
ConflictsHandled(r) ==
  /\ r.pc \in {"pulling", "pulled"}
  /\ r.pushResp # Null
  /\ r.pushResp[1].conflicts # <<>>

\* Handling such a response emits conflict-detected.
ConflictsAreAnnounced ==
  [][\A c \in Clients, k \in Slots :
       (PushHandled(c, k) /\ ConflictsHandled(runs'[c][k])) =>
         \E e \in Range(emitted') :
           e.c = c /\ e.type = "conflict-detected"]_vars

\* C23: a sync() run that ends with the status error has emitted no
\* blocks-updated, tomorrow-tasks-updated, settings-updated or
\* conflict-detected event: none in its last step, and none when it handled
\* its push response.
C23_NoEventsBeforeError ==
  [][\A c \in Clients, k \in Slots :
       RunFails(c, k) =>
         /\ \A e \in Range(EventsOf(c, emitted')) :
              e.type \notin DataEventTypes
         /\ ~ConflictsHandled(runs[c][k])]_vars

(* ------------------------- per-user isolation ------------------------- *)

\* The server answers a request of run k of c in this step.
PushAnswered(c, k) == runs[c][k].pc = "pushing" /\ runs'[c][k].pc = "pushed"

\* The rows of a table that belong to other users than userId, in order.
RowsOfOthers(table, userId) ==
  SelectSeq(table, LAMBDA r : r.userId # userId)

IdsOfOthers(table, userId) ==
  {r.id : r \in Range(RowsOfOthers(table, userId))}

\* Every record of a response is a row of the user, as stored.
OnlyRowsOf(list, table, userId) ==
  \A i \in 1..Len(list) :
    \E r \in Range(table) :
      /\ r.userId = userId
      /\ r.id = list[i].id
      /\ r.text = list[i].text
      /\ r.version = list[i].version

\* C24: a push, a pull or a full sync with the token of user U changes no
\* record and no settings of another user and returns none; a pushed record
\* whose id exists under another user is skipped: its id is neither in
\* applied nor in conflicts, and no row is stored for it.
C24_UserIsolation ==
  [][\A c \in Clients, k \in Slots :
       LET u == UserOf(c)
           r == runs[c][k]
           after == runs'[c][k]
       IN  /\ (PushAnswered(c, k) \/ PullAnswered(c, k) \/ FullAnswered(c, k))
                => /\ RowsOfOthers(srvBlocks', u) = RowsOfOthers(srvBlocks, u)
                   /\ RowsOfOthers(srvTasks', u) = RowsOfOthers(srvTasks, u)
                   /\ \A v \in Users \ {u} : srvSettings'[v] = srvSettings[v]
           /\ (PullAnswered(c, k) \/ FullAnswered(c, k))
                => /\ OnlyRowsOf(after.pullResp[1].blocks, srvBlocks, u)
                   /\ OnlyRowsOf(after.pullResp[1].tomorrowTasks, srvTasks, u)
           /\ PushAnswered(c, k)
                => LET resp == after.pushResp[1]
                   IN  /\ \A b \in Range(r.pushed) :
                            b.id \in IdsOfOthers(srvBlocks, u) =>
                              /\ b.id \notin Range(resp.applied)
                              /\ \A x \in Range(resp.conflicts) :
                                   ~(x.type = "block" /\ x.id = b.id)
                              /\ \A row \in Range(srvBlocks') :
                                   row.id = b.id => row.userId # u
                       /\ \A b \in Range(r.pushedTasks) :
                            b.id \in IdsOfOthers(srvTasks, u) =>
                              /\ b.id \notin Range(resp.appliedTasks)
                              /\ \A x \in Range(resp.conflicts) :
                                   ~(x.type = "tomorrowTask" /\ x.id = b.id)
                              /\ \A row \in Range(srvTasks') :
                                   row.id = b.id => row.userId # u]_vars

\* A push of two records was answered: the id of the first exists under
\* another user and is in neither list of the response, the second was
\* applied, and the other user's row is as it was.
C24_Witness ==
  LET r == runs[Solo][1]
  IN  /\ r.pc = "pushed"
      /\ Len(r.pushed) = 2
      /\ r.pushed[1].id \in IdsOfOthers(srvBlocks, UserOf(Solo))
      /\ r.pushed[1].id \notin Range(r.pushResp[1].applied)
      /\ r.pushed[1].id \notin ConflictIds(r.pushResp[1])
      /\ r.pushed[2].id \in Range(r.pushResp[1].applied)

(* ----------------------- settings: last writer ------------------------ *)

\* In every state an installation reaches the server holds no settings:
\* no push carries any.
ServerHoldsNoSettings == \A u \in Users : srvSettings[u] = Null

\* C25: settings are last-writer-wins by timestamp, and the latest write is
\* the final state everywhere: once an installation that held settings
\* written at T has completed a sync(), the server holds settings written at
\* T or later, and the installation still holds settings no older than T.
C25_LatestSettingsEverywhere ==
  [][\A c \in Clients, k \in Slots :
       (SyncDone(c, k) /\ runs[c][k].saved # Null) =>
         LET T == runs[c][k].saved[1].updatedAt
         IN  /\ settings'[c] # Null
             /\ settings'[c][1].updatedAt >= T
             /\ srvSettings'[UserOf(c)] # Null
             /\ srvSettings'[UserOf(c)][1].updatedAt >= T]_vars

(* ------------------------ the result of saveBlock --------------------- *)

\* The records of a list other than the one with the id.
Others(list, id) == SelectSeq(list, LAMBDA l : l.id # id)

\* C26: saveBlock(p) leaves for p.id a record with the text of p, the
\* previous local version plus one (1 for a new id), status pending and the
\* installation's client id; it keeps the existing record's createdAt,
\* position and calendarEventId where p supplies none, and its serverVersion
\* and lastSyncedAt always; the other records stay as they are.
C26_SaveBlockResult ==
  [][\A c \in Clients, p \in SaveInputs :
       SaveBlock(c, p) =>
         LET i == FindIndex(blocks[c], p.id)
             j == FindIndex(blocks'[c], p.id)
             new == blocks'[c][j]
             old == blocks[c][i]
         IN  /\ j > 0
             /\ new.text = p.text
             /\ new.version = IF i > 0 THEN old.version + 1 ELSE 1
             /\ new.syncStatus = "pending"
             /\ new.clientId = c
             /\ i > 0 =>
                  /\ p.createdAt = Null => new.createdAt = old.createdAt
                  /\ p.position = Null => new.position = old.position
                  /\ p.calendarEventId = Null =>
                       new.calendarEventId = old.calendarEventId
                  /\ new.serverVersion = old.serverVersion
                  /\ new.lastSyncedAt = old.lastSyncedAt
             /\ Others(blocks'[c], p.id) = Others(blocks[c], p.id)
             /\ Len(blocks'[c]) = Len(blocks[c]) + (IF i > 0 THEN 0 ELSE 1)
             /\ tomorrowTasks'[c] = tomorrowTasks[c]]_vars

\* A record that was synced at version 2 and came from another installation
\* has been saved with a partial that supplies no createdAt, position or
\* calendarEventId, next to a record that was in conflict.
C26_Witness ==
  \E b, o \in Range(blocks[Solo]) :
    /\ b.text = <<"N">>
    /\ b.version = 3
    /\ b.serverVersion = Some(2)
    /\ b.clientId = Solo
    /\ b.createdAt = 1
    /\ b.position = 2
    /\ b.calendarEventId = Some(<<"e1">>)
    /\ o.id # b.id
    /\ o.syncStatus = "conflict"

(* ----------------------- the result of fullSync ----------------------- *)

\* The fullSync() of run k of c ends in this step, its response stored.
FullDone(c, k) ==
  /\ runs[c][k].pc = "fulled"
  /\ runs'[c][k].pc = "idle"
  /\ failures' = failures

\* The stored list holds the records of the response, in its order, each
\* synced at its version.
StoredAsSent(list, sent) ==
  /\ Len(list) = Len(sent)
  /\ \A i \in 1..Len(sent) :
       /\ list[i].id = sent[i].id
       /\ list[i].text = sent[i].text
       /\ list[i].version = sent[i].version
       /\ list[i].updatedAt = sent[i].updatedAt
       /\ list[i].deletedAt = sent[i].deletedAt
       /\ list[i].position = sent[i].position
       /\ list[i].clientId = sent[i].clientId
       /\ list[i].syncStatus = "synced"
       /\ list[i].serverVersion = Some(sent[i].version)

\* C27: after a successful fullSync() the local blocks and tomorrow tasks
\* are exactly the records of the server's full response, each synced with
\* serverVersion equal to its version, and lastSyncedAt of the sync state is
\* the response's syncedAt.
C27_FullSyncReplaces ==
  [][\A c \in Clients, k \in Slots :
       FullDone(c, k) =>
         LET resp == runs[c][k].pullResp[1]
         IN  /\ StoredAsSent(blocks'[c], resp.blocks)
             /\ StoredAsSent(tomorrowTasks'[c], resp.tomorrowTasks)
             /\ syncState'[c].lastSyncedAt = Some(resp.syncedAt)]_vars

\* A full sync has just ended that stored a block from the server and left
\* no task: both lists were announced, the block is synced at the time of
\* the response.
C27_Witness ==
  /\ \E e \in Range(emitted) :
       e.c = Solo /\ e.type = "tomorrow-tasks-updated"
  /\ \E e \in Range(emitted) : e.c = Solo /\ e.type = "blocks-updated"
  /\ tomorrowTasks[Solo] = <<>>
  /\ blocks[Solo] # <<>>
  /\ \A b \in Range(blocks[Solo]) :
       b.syncStatus = "synced" /\ b.lastSyncedAt = syncState[Solo].lastSyncedAt
  /\ status[Solo] = "idle"

(* --------------------------- the merge frame -------------------------- *)

\* The records of a local list whose id the batch does not name.
NotInBatch(list, batch) ==
  {l \in Range(list) : \A i \in 1..Len(batch) : batch[i].id # l.id}

\* The merge keeps each of them, field for field, once.
KeepsLocalOnly(before, after, batch) ==
  \A l \in NotInBatch(before, batch) :
    Cardinality({i \in 1..Len(after) : after[i].id = l.id}) = 1
      /\ \E i \in 1..Len(after) : after[i] = l

\* C28: the merge of a server batch, of blocks or of tomorrow tasks, leaves
\* every local record whose id the batch does not name unchanged in every
\* field.
C28_MergeFrame ==
  [][\A c \in Clients, k \in Slots :
       PullStep(c, k) /\ failures' = failures =>
         LET resp == runs[c][k].pullResp[1]
         IN  /\ KeepsLocalOnly(blocks[c], blocks'[c], resp.blocks)
             /\ KeepsLocalOnly(tomorrowTasks[c], tomorrowTasks'[c],
                               resp.tomorrowTasks)]_vars

\* A batch that names b2 has been merged into a list that holds b1 as a
\* pending tombstone: b1 is still there, after the record of the batch.
C28_Witness ==
  /\ runs[Solo][1].pc = "idle"
  /\ Len(srvBlocks) = 1
  /\ srvBlocks[1].id = <<"b2">>
  /\ Len(blocks[Solo]) = 2
  /\ blocks[Solo][1].id = <<"b2">>
  /\ blocks[Solo][2].id = <<"b1">>
  /\ blocks[Solo][2].syncStatus = "pending"
  /\ blocks[Solo][2].deletedAt # Null

(* -------------------------- the guard of sync ------------------------- *)

\* C29: sync() without a stored token sends no request and changes neither
\* the status nor the local data; with a token and the engine offline it
\* sends no request, sets the status offline and changes neither the local
\* data nor lastSyncedAt.
C29_SyncGuard ==
  [][\A c \in Clients :
       /\ (Sync(c) /\ ~isLoggedIn(c)) =>
            /\ runs' = runs
            /\ server' = server
            /\ status' = status
            /\ storage' = storage
            /\ emitted' = <<>>
       /\ (Sync(c) /\ isLoggedIn(c) /\ ~isOnline[c]) =>
            /\ runs' = runs
            /\ server' = server
            /\ status'[c] = "offline"
            /\ storage' = storage]_vars

\* sync() has been called offline, with a token and a pending record, after
\* the offline event had set the status: the call emitted nothing and no run
\* is in flight.
C29_Witness ==
  /\ isLoggedIn(Roamer)
  /\ ~isOnline[Roamer]
  /\ status[Roamer] = "offline"
  /\ emitted = <<>>
  /\ InFlight(Roamer) = {}
  /\ getPendingBlocks(blocks[Roamer]) # <<>>

\* sync() has been called without a token while the status was offline.
SyncCalledSignedOut ==
  /\ ~isLoggedIn(Roamer)
  /\ ~isOnline[Roamer]
  /\ status[Roamer] = "offline"
  /\ emitted = <<>>
  /\ getPendingBlocks(blocks[Roamer]) # <<>>

(* ------------------------------ sign-out ------------------------------ *)

\* C30: signOut() clears the stored token and user, stops the periodic
\* ticker and sets the status idle; it leaves the local blocks, tomorrow
\* tasks, settings and sync state as they are.
C30_SignOutFrame ==
  [][\A c \in Clients :
       SignOut(c) =>
         /\ authToken'[c] = Null
         /\ ~syncInterval'[c]
         /\ status'[c] = "idle"
         /\ blocks' = blocks
         /\ tomorrowTasks' = tomorrowTasks
         /\ settings' = settings
         /\ syncState' = syncState]_vars

\* The installation has signed out while offline, holding a pending block,
\* a pending task, settings and a cursor: the status went from offline to
\* idle, and they are all there.
C30_Witness ==
  /\ ~isLoggedIn(Solo)
  /\ ~isOnline[Solo]
  /\ ~syncInterval[Solo]
  /\ status[Solo] = "idle"
  /\ emitted = <<Event(Solo, "status-change", "idle")>>
  /\ getPendingBlocks(blocks[Solo]) # <<>>
  /\ getPendingTomorrowTasks(tomorrowTasks[Solo]) # <<>>
  /\ settings[Solo] # Null
  /\ syncState[Solo].lastSyncedAt # Null

(* ------------------------ the lists the UI gets ----------------------- *)

NoTombstone(list) == \A i \in 1..Len(list) : list[i].deletedAt = Null

ByCreatedAtAndPosition(list) ==
  \A i, j \in 1..Len(list) :
    i < j =>
      \/ list[i].createdAt < list[j].createdAt
      \/ list[i].createdAt = list[j].createdAt
           /\ list[i].position <= list[j].position

ByPosition(list) ==
  \A i, j \in 1..Len(list) : i < j => list[i].position <= list[j].position

\* C31: every list of blocks handed to the UI, by getBlocks() or by a
\* blocks-updated event, holds no tombstone and is ordered by createdAt and
\* then position; every list of tasks holds no tombstone and is ordered by
\* position.
C31_ListsForTheUI ==
  /\ \A c \in Clients :
       /\ NoTombstone(getBlocks(blocks[c]))
       /\ ByCreatedAtAndPosition(getBlocks(blocks[c]))
       /\ NoTombstone(getTomorrowTasks(tomorrowTasks[c]))
       /\ ByPosition(getTomorrowTasks(tomorrowTasks[c]))
  /\ \A e \in Range(emitted) :
       /\ e.type = "blocks-updated" =>
            NoTombstone(e.list) /\ ByCreatedAtAndPosition(e.list)
       /\ e.type = "tomorrow-tasks-updated" =>
            NoTombstone(e.list) /\ ByPosition(e.list)

\* The same, of getBlocks(), getTomorrowTasks() and the events of the local
\* mutations, which are the steps that emit a list and no status change.
ListsOfCallsAndEdits ==
  /\ \A c \in Clients :
       /\ NoTombstone(getBlocks(blocks[c]))
       /\ ByCreatedAtAndPosition(getBlocks(blocks[c]))
       /\ NoTombstone(getTomorrowTasks(tomorrowTasks[c]))
       /\ ByPosition(getTomorrowTasks(tomorrowTasks[c]))
  /\ \A e \in Range(emitted) :
       (\E f \in Range(emitted) : f.type = "status-change") \/
         /\ e.type = "blocks-updated" =>
              NoTombstone(e.list) /\ ByCreatedAtAndPosition(e.list)
         /\ e.type = "tomorrow-tasks-updated" =>
              NoTombstone(e.list) /\ ByPosition(e.list)

(* ----------------------- the debounce, with time ---------------------- *)

Max(a, b) == IF a > b THEN a ELSE b

\* A timeout whose delay has passed: the runtime calls it back.
DebounceDue(c) ==
  /\ syncDebounceTimer[c] # <<>>
  /\ Head(syncDebounceTimer[c]) = 0

\* Time passes while a timeout is pending and none is due.
Elapse(c) ==
  /\ syncDebounceTimer[c] # <<>>
  /\ ~DebounceDue(c)
  /\ syncDebounceTimer' =
       [syncDebounceTimer EXCEPT
          ![c] = [i \in DOMAIN @ |-> Max(0, @[i] - Quantum)]]
  /\ emitted' = <<>>
  /\ UNCHANGED <<server, storage, status, isOnline, syncInterval, runs,
                 budget, tombstoned>>

\* One installation whose local mutations come at any distance in time from
\* one another, online and offline.
NextDebounce ==
  \/ Elapse(Solo)
  \/ DebounceDue(Solo) /\ DebounceFire(Solo)
  \/ edits < MaxEdits /\ \E p \in BlockInputs(Solo) : SaveBlock(Solo, p)
  \/ edits < MaxEdits
       /\ \E id \in BlockIds \cap ListedIds(Solo) : DeleteBlock(Solo, id)
  \/ Serial(Solo) /\ HandleOnline(Solo)
  \/ HandleOffline(Solo)
  \/ \E k \in Slots :
       \/ now < MaxDebounceTime /\ ServerPush(Solo, k)
       \/ PushResponse(Solo, k)
       \/ now < MaxDebounceTime /\ ServerPull(Solo, k)
       \/ PullResponse(Solo, k)

SpecDebounce == Init /\ [][NextDebounce]_vars

\* A local mutation is the step that spends one of the edits.
Mutation == edits' = edits + 1

Scheduling(c) == isOnline[c] /\ isLoggedIn(c)

\* C32 as stated: every local mutation, offline ones too, leaves one
\* timeout pending with the whole delay ahead of it.
C32_EveryMutationSchedules ==
  [][Mutation => syncDebounceTimer'[Solo] = <<DebounceDelay>>]_vars

\* C32: at most one debounce timeout is pending at any time; a local mutation
\* of an online, signed-in engine leaves exactly one, with the whole delay
\* ahead of it, whatever was pending before; and the debounce calls sync()
\* only from that one timeout, once its delay has passed since the mutation
\* that set it.
C32_Debounce ==
  [][/\ Len(syncDebounceTimer'[Solo]) <= 1
     /\ (Mutation /\ Scheduling(Solo))
          => syncDebounceTimer'[Solo] = <<DebounceDelay>>
     /\ DebounceFire(Solo)
          => /\ syncDebounceTimer[Solo] = <<0>>
             /\ syncDebounceTimer'[Solo] = <<>>]_vars

\* A burst has been made (a second mutation came while the timeout of the
\* first was pending) and its one timeout has just fired: the only sync()
\* call the engine has made so far.
C32_Witness ==
  /\ edits >= 2
  /\ now = 2
  /\ syncDebounceTimer[Solo] = <<>>
  /\ Cardinality(InFlight(Solo)) = 1
  /\ emitted = <<Event(Solo, "status-change", "syncing")>>

(* ------------------- edits while a push is in flight ------------------ *)

\* The record of the list that the push of run r carried in an earlier
\* version.
EditedSincePushed(b, r) ==
  \E j \in DOMAIN r.pushed :
    /\ r.pushed[j].id = b.id
    /\ r.pushed[j].version < b.version

\* C33: a record changed after the push request that carries an earlier
\* version of it was sent is still pending, with the newer text, once the
\* response of that push has been processed.
C33_EditDuringPushKept ==
  [][\A c \in Clients, k \in Slots :
       PushResponse(c, k) =>
         \A i \in DOMAIN blocks[c] :
           (/\ blocks[c][i].syncStatus = "pending"
            /\ EditedSincePushed(blocks[c][i], runs[c][k]))
             => /\ blocks'[c][i].syncStatus = "pending"
                /\ blocks'[c][i].text = blocks[c][i].text]_vars

(* ------------------ conflicts with one's own writes ------------------- *)

\* The installation that holds the block in common is the only one that
\* acts: every version the server comes to hold is of its own pushes.
NextOwn ==
  \/ Serial(Solo) /\ Sync(Solo)
  \/ Serial(Solo) /\ DebounceFire(Solo)
  \/ edits < MaxEdits /\ \E p \in BlockInputs(Solo) : SaveBlock(Solo, p)
  \/ edits < MaxEdits
       /\ \E id \in BlockIds \cap ListedIds(Solo) : DeleteBlock(Solo, id)
  \/ \E k \in Slots :
       \/ now < MaxTime /\ ServerPush(Solo, k)
       \/ PushResponse(Solo, k)
       \/ now < MaxTime /\ ServerPull(Solo, k)
       \/ PullResponse(Solo, k)

SpecOwn == InitShared /\ [][NextOwn]_vars

\* C34: the only writer of its user's rows never gives one of its records
\* the status conflict.
C34_NoConflictWithOwnWrite ==
  \A i \in DOMAIN blocks[Solo] : blocks[Solo][i].syncStatus # "conflict"

(* ----------------------- the cursor of the pulls ---------------------- *)

\* The pulls of installation c have gone past row: its updatedAt is not
\* above the cursor the next pull will send.
BehindCursor(row, c) ==
  /\ syncState[c].lastSyncedAt # Null
  /\ row.updatedAt <= syncState[c].lastSyncedAt[1]

\* Installation c has merged the row, or a later version of it: the merge
\* leaves serverVersion at the version of the row it has seen.
Delivered(row, c) ==
  \E i \in DOMAIN blocks[c] :
    /\ blocks[c][i].id = row.id
    /\ OrZero(blocks[c][i].serverVersion) >= row.version

\* The push transaction of run k begins: it reads the server's clock, the
\* updatedAt of the rows it will write.  Nothing of it is visible yet.
ServerPushBegin(c, k) ==
  LET r == runs[c][k]
  IN  /\ r.pc = "pushing"
      /\ r.begun = Null
      /\ now' = now + 1
      /\ runs' = [runs EXCEPT ![c][k].begun = Some(now + 1)]
      /\ emitted' = <<>>
      /\ UNCHANGED <<srvBlocks, srvTasks, srvSettings, storage, status,
                     isOnline, timers, budget, tombstoned>>

\* The push transaction of run k commits: its rows become visible, with the
\* updatedAt read when it began.
ServerPushCommit(c, k) ==
  LET r == runs[c][k]
      t == r.begun[1]
      outBlocks == PushBlocks(srvBlocks, EmptyPushResponse, UserOf(c), c,
                              r.pushed, t)
      out == PushTasks(srvTasks, outBlocks.resp, UserOf(c), c,
                       r.pushedTasks, t)
  IN  /\ r.pc = "pushing"
      /\ r.begun # Null
      /\ srvBlocks' = outBlocks.table
      /\ srvTasks' = out.table
      /\ srvSettings' = [srvSettings EXCEPT
           ![UserOf(c)] = PushSettings(@, PushedSettings(c))]
      /\ runs' = [runs EXCEPT ![c][k].pc = "pushed",
                              ![c][k].begun = Null,
                              ![c][k].pushResp = Some(out.resp)]
      /\ emitted' = <<>>
      /\ UNCHANGED <<now, storage, status, isOnline, timers, budget,
                     tombstoned>>

\* The installation that writes, and the two installations syncing against
\* a server whose push transactions take time.
Writer == "B"

NextCursor ==
  \/ \E c \in Clients : Serial(c) /\ Sync(c)
  \/ edits < MaxEdits /\ \E p \in BlockInputs(Writer) : SaveBlock(Writer, p)
  \/ \E c \in Clients, k \in Slots :
       \/ now < MaxTime /\ ServerPushBegin(c, k)
       \/ ServerPushCommit(c, k)
       \/ PushResponse(c, k)
       \/ now < MaxTime /\ ServerPull(c, k)
       \/ PullResponse(c, k)

SpecCursor == InitShared /\ [][NextCursor]_vars

\* C35: every row another installation of the user has written, and that
\* the pulls of an installation have gone past, has been delivered to it.
C35_CursorComplete ==
  \A c \in Clients :
    \A i \in DOMAIN srvBlocks :
      (/\ srvBlocks[i].userId = UserOf(c)
       /\ srvBlocks[i].clientId # c
       /\ BehindCursor(srvBlocks[i], c))
        => Delivered(srvBlocks[i], c)

(* --------------------- the rows a conflict leaves --------------------- *)

\* The rows the server has appended for pushes it rejected.
ConflictCopies ==
  {i \in DOMAIN srvBlocks :
     /\ Len(srvBlocks[i].text) >= 1
     /\ SubSeq(srvBlocks[i].text, 1, 1) = ConflictPrefix}

\* C36: the server holds at most one "[Conflict]" row for each local edit:
\* syncing again without editing adds none.
C36_OneCopyPerEdit == Cardinality(ConflictCopies) <= edits

(* ------------------------ status while syncing ------------------------ *)

\* C37: while a sync() call of an engine is in flight, the engine's status
\* is syncing.
C37_StatusWhileInFlight ==
  \A c \in Clients : InFlight(c) # {} => status[c] = "syncing"

(* ------------------------- the mobile store --------------------------- *)

\* storage.markBlocksSynced and storage.mergeServerBlocks of the mobile
\* engine: the awaited getLocalBlocks, and then the awaited setLocalBlocks of
\* the list made from what was read.
MobileMarkRead(c, k) ==
  LET r == runs[c][k]
  IN  /\ r.pc = "pushed"
      /\ r.via = "sync"
      /\ runs' = [runs EXCEPT ![c][k].pc = "marking",
                              ![c][k].read = Some(blocks[c])]
      /\ emitted' = <<>>
      /\ UNCHANGED <<server, storage, status, isOnline, timers, budget,
                     tombstoned>>

MobileMarkWrite(c, k) ==
  LET r == runs[c][k]
      resp == r.pushResp[1]
  IN  /\ r.pc = "marking"
      /\ blocks' = [blocks EXCEPT
           ![c] = IF resp.applied # <<>>
                  THEN markBlocksSynced(r.read[1], resp.applied,
                                        ClientNow(c))
                  ELSE @]
      /\ tomorrowTasks' = [tomorrowTasks EXCEPT
           ![c] = IF resp.appliedTasks # <<>>
                  THEN markTomorrowTasksSynced(@, resp.appliedTasks,
                                               ClientNow(c))
                  ELSE @]
      /\ emitted' = IF resp.conflicts # <<>>
                    THEN <<Event(c, "conflict-detected", "")>>
                    ELSE <<>>
      /\ runs' = [runs EXCEPT ![c][k].pc = "pulling",
                              ![c][k].read = Null,
                              ![c][k].since = syncState[c].lastSyncedAt]
      /\ UNCHANGED <<server, authToken, settings, syncState, status,
                     isOnline, timers, budget, tombstoned>>

MobileMergeRead(c, k) ==
  LET r == runs[c][k]
  IN  /\ r.pc = "pulled"
      /\ runs' = [runs EXCEPT ![c][k].pc = "merging",
                              ![c][k].read = Some(blocks[c])]
      /\ emitted' = <<>>
      /\ UNCHANGED <<server, storage, status, isOnline, timers, budget,
                     tombstoned>>

MobileMergeWrite(c, k) ==
  LET r == runs[c][k]
      resp == r.pullResp[1]
  IN  /\ r.pc = "merging"
      /\ blocks' = [blocks EXCEPT
           ![c] = IF resp.blocks # <<>>
                  THEN mergeServerBlocks(r.read[1], resp.blocks,
                                         ClientNow(c))
                  ELSE @]
      /\ tomorrowTasks' = [tomorrowTasks EXCEPT
           ![c] = IF resp.tomorrowTasks # <<>>
                  THEN mergeServerTomorrowTasks(@, resp.tomorrowTasks,
                                                ClientNow(c))
                  ELSE @]
      /\ settings' = [settings EXCEPT
           ![c] = IF resp.settings # Null THEN resp.settings ELSE @]
      /\ syncState' = [syncState EXCEPT
           ![c] = [lastSyncedAt |-> Some(resp.syncedAt)]]
      /\ status' = [status EXCEPT ![c] = "idle"]
      /\ emitted' =
           (IF resp.blocks # <<>>
            THEN <<ListEvent(c, "blocks-updated", blocks'[c])>> ELSE <<>>)
             \o (IF resp.tomorrowTasks # <<>>
                 THEN <<ListEvent(c, "tomorrow-tasks-updated",
                                  tomorrowTasks'[c])>>
                 ELSE <<>>)
             \o (IF resp.settings # Null
                 THEN <<Event(c, "settings-updated", "")>> ELSE <<>>)
             \o StatusEvents(c, "idle")
      /\ runs' = [runs EXCEPT ![c][k] = IdleRun]
      /\ UNCHANGED <<server, authToken, isOnline, timers, budget,
                     tombstoned>>

\* The mobile installation: its saveBlock and deleteBlock come between the
\* reads and the writes of a sync() in flight.
NextMobile ==
  \/ Serial(Solo) /\ Sync(Solo)
  \/ edits < MaxEdits /\ \E p \in BlockInputs(Solo) : SaveBlock(Solo, p)
  \/ edits < MaxEdits
       /\ \E id \in BlockIds \cap ListedIds(Solo) : DeleteBlock(Solo, id)
  \/ \E k \in Slots :
       \/ now < MaxTime /\ ServerPush(Solo, k)
       \/ MobileMarkRead(Solo, k)
       \/ MobileMarkWrite(Solo, k)
       \/ now < MaxTime /\ ServerPull(Solo, k)
       \/ MobileMergeRead(Solo, k)
       \/ MobileMergeWrite(Solo, k)

SpecMobile == InitShared /\ [][NextMobile]_vars

\* The change the user made to a record: what saveBlock and deleteBlock set.
SameChange(a, b) ==
  /\ a.id = b.id
  /\ a.text = b.text
  /\ a.version = b.version
  /\ a.deletedAt = b.deletedAt

\* The write of a storage operation of sync() keeps what the store has
\* taken since the operation read it.
KeepsLaterWrites(c, k) ==
  \A i \in DOMAIN blocks[c] :
    blocks[c][i] \notin Range(runs[c][k].read[1])
      => \E j \in DOMAIN blocks'[c] : SameChange(blocks'[c][j], blocks[c][i])

\* C38: a block written by saveBlock or tombstoned by deleteBlock while a
\* storage operation of sync() is between its read and its write is in the
\* store, with that change, after the operation has written.
C38_MobileWritesKept ==
  [][\A k \in Slots :
       (MobileMarkWrite(Solo, k) \/ MobileMergeWrite(Solo, k))
         => KeepsLaterWrites(Solo, k)]_vars

(* ------------------------- a signIn that fails ------------------------ *)

\* C39: when signIn rejects because its push of the pending changes fails,
\* the engine is left signed out, no token stored, and no periodic ticker
\* runs.
C39_FailedSignInSignedOut ==
  [][\A k \in Slots :
       SignInPushFail(Solo, k)
         => /\ authToken'[Solo] = Null
            /\ ~syncInterval'[Solo]]_vars

(* ----------------------- pending records, in time --------------------- *)

\* The server's clock leaves room for n more requests.
Room(n) == now + n <= MaxLiveTime

\* The steps that come by themselves: the ticker and the debounce timer
\* fire, the server answers and the engine takes the answer.
LiveProgress ==
  \/ Room(2) /\ Serial(Solo) /\ PeriodicTick(Solo)
  \/ Room(2) /\ Serial(Solo) /\ DebounceFire(Solo)
  \/ \E k \in Slots :
       \/ now < MaxLiveTime /\ ServerPush(Solo, k)
       \/ SignInPushResponse(Solo, k)
       \/ PushResponse(Solo, k)
       \/ now < MaxLiveTime /\ ServerFull(Solo, k)
       \/ FullResponse(Solo, k)
       \/ now < MaxLiveTime /\ ServerPull(Solo, k)
       \/ PullResponse(Solo, k)

\* An installation that signs in and stays signed in.  The user edits while
\* the clock leaves room for the syncs that follow, and stops; the network
\* fails a bounded number of times.
NextLive ==
  \/ Room(4) /\ edits < MaxOfflineEdits
       /\ \E p \in BlockInputs(Solo) :
            /\ p.id \in ListedIds(Solo) \/ Fresh(p.id)
            /\ SaveBlock(Solo, p)
  \/ Room(2) /\ SignIn(Solo)
  \/ failures < MaxFailures /\ \E k \in Slots : SignInPushFail(Solo, k)
  \/ LiveProgress

SpecLive == InitSignedOut /\ [][NextLive]_vars /\ WF_vars(LiveProgress)

\* C40: eventually, and from then on, a signed-in installation holds no
\* pending record: each has become synced or conflict.
C40_PendingResolved ==
  <>[](isLoggedIn(Solo) => getPendingBlocks(blocks[Solo]) = <<>>)
====
